---------------------------- MODULE Spec2Model ----------------------------
(***************************************************************************)
(* Balise_Tester: the packet codec (core/packet_utils.py), the balise      *)
(* group assigner (core/config_manager.py and the simulation widget's own  *)
(* copy), the signal authorization engine and the simulation engine       *)
(* (widgets/simulation_widget.py, with the handlers of main_window.py).    *)
(*                                                                         *)
(* Python strings whose characters the code inspects (names, sub_id,       *)
(* father_balise, telegrams, packet values) are sequences of one-character *)
(* strings; dictionary keys are TLA+ strings; a dict is a function whose   *)
(* DOMAIN is its key set.  Times are whole seconds (the simulated clock is *)
(* datetime.now().replace(microsecond=0)).  Locations and speeds are whole *)
(* numbers of a unit: for the authorization engine, which only compares    *)
(* locations, the unit is free; for the simulation engine one speed unit   *)
(* is 5 km/h and one location unit is the 0.8 m such a speed covers in one *)
(* 16 ms simulation tick.                                                  *)
(***************************************************************************)
EXTENDS Integers, Sequences, FiniteSets, TLC

VARIABLES
    packet_name,        \* codec: the packet type handed to encode/decode
    data,               \* codec: the caller's field mapping
    bin_str,            \* codec: the telegram produced by encode_packet
    result,             \* codec: the mapping returned by decode_packet
    cpc,                \* position of the call under check: "idle" | "start" | ...
    arg_value,          \* int_to_bin: the value argument
    arg_bits,           \* int_to_bin: the bits argument
    roster0,            \* assigner: the roster as it arrived
    cfg_balises,        \* assigner: the list ConfigManager works on in place
    runs,               \* assigner: process_balise_groups runs so far (0, 1, 2 = more)
    balises,            \* widget: self.balises
    sim_set,            \* widget: whether set_config has loaded self.balises
    trains,             \* widget: self.trains
    balise_pass_times,  \* widget: self.balise_pass_times
    current_sim_time,   \* widget: self.current_sim_time
    is_running,         \* widget: self.is_running
    schedule_runtime,   \* widget: self.schedule_runtime
    schedule_entries,   \* widget: self.schedule_entries, the timetable as loaded
    train_templates     \* widget: self.train_templates, the configured trains

vars == <<packet_name, data, bin_str, result, cpc, arg_value, arg_bits, roster0,
          cfg_balises, runs, balises, sim_set, trains, balise_pass_times,
          current_sim_time, is_running, schedule_runtime, schedule_entries,
          train_templates>>

codecVars == <<packet_name, data, bin_str, result, cpc>>
groupVars == <<roster0, cfg_balises, runs, sim_set>>
authVars  == <<trains, balise_pass_times, current_sim_time>>
fieldVars == <<arg_value, arg_bits>>
simVars   == <<is_running, schedule_runtime, schedule_entries, train_templates>>

-----------------------------------------------------------------------------
(* Bounds of the model *)

\* A caller's mapping names at most this many fields of the packet.
MaxAssigned == 2
\* Sample values of a field of width w: the NLow smallest and the NHigh largest.
NLow == 2
NHigh == 1
\* A roster holds at most this many balise records.
MaxBalises == 3
\* The train roster of the authorization engine holds at most this many trains.
MaxTrains == 2
\* The simulated clock runs from 0 to MaxTime seconds.
MaxTime == 8
\* The timetable of the model: departure and leave second of a
\* schedule-managed train.
DepT == 2
LeaveT == 4

-----------------------------------------------------------------------------
(* Python string helpers *)

M1(a, b) == [x \in DOMAIN a \cup DOMAIN b |-> IF x \in DOMAIN b THEN b[x] ELSE a[x]]

DigitChars == <<"0", "1", "2", "3", "4", "5", "6", "7", "8", "9">>

DigitVal(c) == CHOOSE d \in 0..9 : DigitChars[d + 1] = c

IsDigitChar(c) == \E d \in 1..10 : DigitChars[d] = c

\* str.isdigit(): non-empty and every character a digit
IsDigit(s) == Len(s) > 0 /\ \A i \in 1..Len(s) : IsDigitChar(s[i])

RECURSIVE LStrip(_)
LStrip(s) == IF s # <<>> /\ Head(s) = " " THEN LStrip(Tail(s)) ELSE s

RECURSIVE RStrip(_)
RStrip(s) == IF s # <<>> /\ s[Len(s)] = " " THEN RStrip(SubSeq(s, 1, Len(s) - 1)) ELSE s

\* str.strip()
Strip(s) == RStrip(LStrip(s))

RECURSIVE IntOfDigits(_)
IntOfDigits(s) == IF s = <<>> THEN 0
                  ELSE 10 * IntOfDigits(SubSeq(s, 1, Len(s) - 1)) + DigitVal(s[Len(s)])

\* int(s) for a string of decimal digits, surrounding blanks allowed
IntOf(s) == IntOfDigits(Strip(s))


RECURSIVE StrOf(_)
\* str(n) for n >= 0
StrOf(n) == IF n < 10 THEN <<DigitChars[n + 1]>>
            ELSE StrOf(n \div 10) \o <<DigitChars[(n % 10) + 1]>>

\* s in t  (substring test)
Contains(t, s) == \E i \in 0..(Len(t) - Len(s)) : SubSeq(t, i + 1, i + Len(s)) = s

-----------------------------------------------------------------------------
(* PacketUtils *)

RECURSIVE Pow2(_)
Pow2(n) == IF n = 0 THEN 1 ELSE 2 * Pow2(n - 1)

RECURSIVE BinDigits(_)
\* the 'b' presentation of a non-negative integer, no padding
BinDigits(n) == IF n < 2 THEN <<DigitChars[n + 1]>>
                ELSE BinDigits(n \div 2) \o <<DigitChars[(n % 2) + 1]>>

Zeros(n) == [i \in 1..n |-> "0"]

\* f"{val:0{bits}b}": sign first, then zeros up to the total width bits
FormatBin(val, bits) ==
    LET mag  == BinDigits(IF val < 0 THEN 0 - val ELSE val)
        sign == IF val < 0 THEN <<"-">> ELSE <<>>
        pad  == bits - Len(sign) - Len(mag)
    IN  sign \o Zeros(IF pad > 0 THEN pad ELSE 0) \o mag

\* s[-bits:]  (s[-0:] is all of s)
LastChars(s, bits) ==
    IF bits = 0 \/ bits >= Len(s) THEN s ELSE SubSeq(s, Len(s) - bits + 1, Len(s))

int_to_bin_NoPad(value, bits) == BinDigits(value)
int_to_bin(value, bits) == LastChars(FormatBin(value, bits), bits)

RECURSIVE BinValue(_)
BinValue(s) == IF s = <<>> THEN 0
               ELSE 2 * BinValue(SubSeq(s, 1, Len(s) - 1)) + DigitVal(s[Len(s)])

\* int(bin_str, 2), the empty string giving 0
bin_to_int(s) == IF s = <<>> THEN 0 ELSE BinValue(s)

-----------------------------------------------------------------------------
(* PACKET_DEFS: name, width, fixed value if any, presence condition if any *)

NoCond == [kind |-> "none", field |-> "", value |-> 0]
Never == [kind |-> "false", field |-> "", value |-> 0]
Eq(f, v) == [kind |-> "eq", field |-> f, value |-> v]

F(n, l) == [name |-> n, len |-> l, fixed |-> FALSE, val |-> 0, cond |-> NoCond]
FV(n, l, v) == [name |-> n, len |-> l, fixed |-> TRUE, val |-> v, cond |-> NoCond]
FC(n, l, c) == [name |-> n, len |-> l, fixed |-> FALSE, val |-> 0, cond |-> c]

PACKET_DEFS ==
    [p \in {"ETCS-5", "CTCS-1", "ETCS-21", "ETCS-27", "ETCS-41", "CTCS-2", "CTCS-4",
            "CTCS-5", "ETCS-68", "ETCS-79"} |->
     CASE p = "ETCS-5" ->
            <<FV("NID_PACKET", 8, 5), F("Q_DIR", 2), F("Q_SCALE", 2), F("D_LINK", 15),
              F("Q_NEWCOUNTRY", 1), FC("NID_C", 10, Eq("Q_NEWCOUNTRY", 1)),
              F("NID_BG", 14), F("Q_LINKORIENTATION", 1), F("Q_LINKREACTION", 2),
              F("Q_LOCACC", 6), F("N_ITER", 5)>>
       [] p = "CTCS-1" ->
            <<FV("NID_XUSER", 9, 1), F("Q_DIR", 2), F("Q_SCALE", 2), F("NID_SIGNAL", 4),
              F("NID_FREQUENCY", 5), F("D_SIGNAL", 15), F("L_SECTION", 15),
              F("N_ITER", 5)>>
       [] p = "ETCS-21" ->
            <<FV("NID_PACKET", 8, 21), F("Q_DIR", 2), F("Q_SCALE", 2),
              F("D_GRADIENT", 15), F("Q_GDIR", 1), F("G_A", 8), F("N_ITER", 5)>>
       [] p = "ETCS-27" ->
            <<FV("NID_PACKET", 8, 27), F("Q_DIR", 2), F("Q_SCALE", 2), F("D_STATIC", 15),
              F("V_STATIC", 7), F("Q_FRONT", 1), FV("NC_DIFF", 4, 0),
              FC("V_DIFF", 7, Never), F("N_ITER", 5)>>
       [] p = "ETCS-41" ->
            <<FV("NID_PACKET", 8, 41), F("Q_DIR", 2), F("Q_SCALE", 2),
              F("D_LEVELTR", 15), F("M_LEVELTR", 3),
              FC("NID_STM", 8, Eq("M_LEVELTR", 1)), F("L_ACKLEVELTR", 15),
              F("N_ITER", 5)>>
       [] p = "CTCS-2" ->
            <<FV("NID_XUSER", 9, 2), F("Q_DIR", 2), F("Q_SCALE", 2), F("V_TSR", 7),
              F("D_TSR", 15), F("L_TSR", 15), F("L_TSRarea", 15), F("N_ITER", 5)>>
       [] p = "CTCS-4" ->
            <<FV("NID_XUSER", 9, 4), F("Q_DIR", 2), F("Q_SCALE", 2), F("D_TURNOUT", 15),
              F("V_TURNOUT", 7)>>
       [] p = "CTCS-5" ->
            <<FV("NID_XUSER", 9, 5), F("Q_DIR", 2), F("Q_STOP", 1)>>
       [] p = "ETCS-68" ->
            <<FV("NID_PACKET", 8, 68), F("Q_DIR", 2), F("Q_SCALE", 2),
              F("Q_TRACKINIT", 1), FC("D_TRACKINIT", 15, Eq("Q_TRACKINIT", 1)),
              FC("M_TRACKCOND", 4, Eq("Q_TRACKINIT", 0)),
              FC("D_TRACKCOND", 15, Eq("Q_TRACKINIT", 0)),
              FC("L_TRACKCOND", 15, Eq("Q_TRACKINIT", 0)),
              FC("N_ITER", 5, Eq("Q_TRACKINIT", 0))>>
       [] p = "ETCS-79" ->
            <<FV("NID_PACKET", 8, 79), F("Q_DIR", 2), F("Q_SCALE", 2),
              F("Q_NEWCOUNTRY", 1), FC("NID_C", 10, Eq("Q_NEWCOUNTRY", 1)),
              F("M_POSITION", 20), F("Q_MPOSITION", 1), F("D_POSOFF", 15),
              F("N_ITER", 5)>>]

\* field["cond"](d) when the field has a condition; a field without one is present
CondHolds(c, d) ==
    CASE c.kind = "none" -> TRUE
      [] c.kind = "false" -> FALSE
      [] c.kind = "eq" -> c.field \in DOMAIN d /\ d[c.field] = c.value

\* val = field["val"] if "val" in field else processed_data.get(name, 0)
FieldValueCallerFirst(field, d) ==
    IF field.name \in DOMAIN d THEN d[field.name]
    ELSE IF field.fixed THEN field.val ELSE 0
FieldValue(field, d) ==
    IF field.fixed THEN field.val
    ELSE IF field.name \in DOMAIN d THEN d[field.name] ELSE 0

RECURSIVE EncodeFrom(_, _, _)
EncodeFrom(defs, i, d) ==
    IF i > Len(defs) THEN <<>>
    ELSE LET field == defs[i]
             val == FieldValue(field, d)
         IN  IF ~CondHolds(field.cond, d) THEN EncodeFrom(defs, i + 1, d)
             ELSE int_to_bin(val, field.len) \o EncodeFrom(defs, i + 1, d)

encode_packet(p, d) ==
    IF p \notin DOMAIN PACKET_DEFS THEN <<>> ELSE EncodeFrom(PACKET_DEFS[p], 1, d)

RECURSIVE DecodeFromSkipping(_, _, _, _, _)
\* a decoder that passes over a field that does not fit instead of stopping
DecodeFromSkipping(defs, i, s, ptr, res) ==
    IF i > Len(defs) THEN res
    ELSE LET field == defs[i]
         IN  IF ~CondHolds(field.cond, res) THEN DecodeFromSkipping(defs, i + 1, s, ptr, res)
             ELSE IF ptr + field.len > Len(s) THEN DecodeFromSkipping(defs, i + 1, s, ptr, res)
             ELSE DecodeFromSkipping(defs, i + 1, s, ptr + field.len,
                     M1(res, [k \in {field.name} |->
                                 bin_to_int(SubSeq(s, ptr + 1, ptr + field.len))]))

RECURSIVE DecodeFrom(_, _, _, _, _)
DecodeFrom(defs, i, s, ptr, res) ==
    IF i > Len(defs) THEN res
    ELSE LET field == defs[i]
         IN  IF ~CondHolds(field.cond, res) THEN DecodeFrom(defs, i + 1, s, ptr, res)
             ELSE IF ptr + field.len > Len(s) THEN res
             ELSE DecodeFrom(defs, i + 1, s, ptr + field.len,
                     M1(res, [k \in {field.name} |->
                                 bin_to_int(SubSeq(s, ptr + 1, ptr + field.len))]))

\* a decoder that answers an unknown packet name with an empty mapping
decode_packet_NoRaw(p, s) ==
    IF p \notin DOMAIN PACKET_DEFS THEN <<>>
    ELSE DecodeFrom(PACKET_DEFS[p], 1, s, 0, <<>>)

decode_packet(p, s) ==
    IF p \notin DOMAIN PACKET_DEFS THEN [k \in {"raw"} |-> s]
    ELSE DecodeFrom(PACKET_DEFS[p], 1, s, 0, <<>>)

-----------------------------------------------------------------------------
(* The codec as a state machine: a caller picks a packet type and a field     *)
(* mapping, encodes it, and decodes the telegram.                            *)

FieldNames(p) == {PACKET_DEFS[p][i].name : i \in 1..Len(PACKET_DEFS[p])}

FieldOf(p, n) == PACKET_DEFS[p][CHOOSE i \in 1..Len(PACKET_DEFS[p]) : PACKET_DEFS[p][i].name = n]

\* the i-th sample value of a field of width w: 0, 1, ... then 2^w - 1, 2^w - 2, ...
SampleAt(w, i) ==
    IF i <= NLow THEN (IF i - 1 < Pow2(w) THEN i - 1 ELSE Pow2(w) - 1)
    ELSE (IF Pow2(w) - (i - NLow) >= 0 THEN Pow2(w) - (i - NLow) ELSE 0)

\* in-range assignments to at most MaxAssigned field names of p
Assignments(p) ==
    UNION {{[n \in S |-> SampleAt(FieldOf(p, n).len, idx[n])] :
                idx \in [S -> 1..(NLow + NHigh)]} :
           S \in {T \in SUBSET FieldNames(p) : Cardinality(T) <= MaxAssigned}}

NoDict == <<>>

GroupIdle == roster0 = <<>> /\ cfg_balises = <<>> /\ runs = 0 /\ sim_set = FALSE

AuthIdle == trains = <<>> /\ balise_pass_times = NoDict /\ current_sim_time = 0

FieldIdle == arg_value = 0 /\ arg_bits = 0

SimIdle == /\ is_running = FALSE /\ schedule_runtime = <<>>
           /\ schedule_entries = <<>> /\ train_templates = <<>>

CodecIdle == packet_name = "" /\ data = NoDict /\ bin_str = <<>> /\ result = NoDict
             /\ cpc = "idle"

InitCodec ==
    /\ packet_name \in DOMAIN PACKET_DEFS
    /\ data \in Assignments(packet_name)
    /\ bin_str = <<>>
    /\ result = NoDict
    /\ cpc = "start"
    /\ GroupIdle /\ AuthIdle /\ FieldIdle /\ SimIdle /\ balises = <<>>

Encode ==
    /\ cpc = "start"
    /\ bin_str' = encode_packet(packet_name, data)
    /\ cpc' = "encoded"
    /\ UNCHANGED <<packet_name, data, result, groupVars, balises, authVars, fieldVars, simVars>>

Decode ==
    /\ cpc = "encoded"
    /\ result' = decode_packet(packet_name, bin_str)
    /\ cpc' = "decoded"
    /\ UNCHANGED <<packet_name, data, bin_str, groupVars, balises, authVars, fieldVars, simVars>>

NextCodec == Encode \/ Decode

SpecCodec == InitCodec /\ [][NextCodec]_vars

-----------------------------------------------------------------------------
(* C1: decode_packet(P, encode_packet(P, V)) gives back, for every field of V  *)
(* that has no fixed value and whose presence condition holds under V, the     *)
(* value V gives it.                                                           *)
C1_RoundTrip ==
    cpc = "decoded" =>
        \A i \in 1..Len(PACKET_DEFS[packet_name]) :
            LET field == PACKET_DEFS[packet_name][i]
            IN  (field.name \in DOMAIN data /\ ~field.fixed /\ CondHolds(field.cond, data))
                => (field.name \in DOMAIN result /\ result[field.name] = data[field.name])

\* a conditional field that is present under V comes back with a non-zero value
C1_Witness ==
    /\ cpc = "decoded"
    /\ packet_name = "ETCS-41"
    /\ DOMAIN data = {"M_LEVELTR", "NID_STM"}
    /\ data["M_LEVELTR"] = 1 /\ data["NID_STM"] = 255
    /\ result["M_LEVELTR"] = 1 /\ result["NID_STM"] = 255

-----------------------------------------------------------------------------
(* GroupAssigner: ConfigManager.process_balise_groups and                     *)
(* SimulationWidget._process_balise_ids                                       *)

\* d.get(k, default)
Get(d, k, default) == IF k \in DOMAIN d THEN d[k] ELSE default

\* d[k] = v
Put(d, k, v) == [x \in DOMAIN d \cup {k} |-> IF x = k THEN v ELSE d[x]]

\* str(balise.get("father_balise", "")).strip()
FatherId(b) == Strip(Get(b, "father_balise", <<>>))

\* str(b.get("sub_id", "")).strip()
Sid(b) == Strip(Get(b, "sub_id", <<>>))

\* the indices of the records grouped under father_id, in roster order
GroupOf(bs, father_id) == {i \in 1..Len(bs) : FatherId(bs[i]) = father_id}

GroupKeys(bs) == {FatherId(bs[i]) : i \in 1..Len(bs)} \ {<<>>}

\* step 1: the sub_ids already present and numeric
UsedIds(bs, father_id) ==
    {IntOf(Sid(bs[i])) : i \in {j \in GroupOf(bs, father_id) : IsDigit(Sid(bs[j]))}}

\* while next_id in used_ids: next_id += 1
SkipUsedNoSkip(next_id, used_ids) == next_id
SkipUsed(next_id, used_ids) ==
    CHOOSE n \in next_id..(next_id + Cardinality(used_ids)) :
        n \notin used_ids /\ \A m \in next_id..(n - 1) : m \in used_ids

\* if not sid or not sid.isdigit()
NeedsSubIdAlways(sid) == TRUE
NeedsSubId(sid) == sid = <<>> \/ ~IsDigit(sid)

RECURSIVE FillMissing(_, _, _, _)
\* step 2: the members from index i on, in roster order
FillMissing(bs, i, next_id, used_ids) ==
    IF i > Len(bs) THEN bs
    ELSE IF FatherId(bs[i]) = <<>> \/ ~NeedsSubId(Sid(bs[i]))
         THEN FillMissing(bs, i + 1, next_id, used_ids)
    ELSE LET father_id == FatherId(bs[i])
             used == used_ids[father_id]
             nid == SkipUsed(next_id[father_id], used)
         IN  FillMissing([bs EXCEPT ![i] = Put(@, "sub_id", StrOf(nid))], i + 1,
                         [next_id EXCEPT ![father_id] = nid],
                         [used_ids EXCEPT ![father_id] = used \cup {nid}])

\* f"{s_id:03b}" of int(b.get("sub_id", 0)), "000" on ValueError
NPigOf(b) ==
    IF IsDigit(Sid(b)) THEN FormatBin(IntOf(Sid(b)), 3) ELSE <<"0", "0", "0">>

\* the records without father: sub_id, n_pig, n_total, q_link reset
SingleCM(b) == Put(Put(Put(Put(b, "sub_id", <<"0">>), "n_pig", <<"0", "0", "0">>),
                       "n_total", <<"1">>), "q_link", <<"0">>)

\* count = len(group) 
CountDropsOne(bs, father_id) == Cardinality(GroupOf(bs, father_id)) - 1
Count(bs, father_id) == Cardinality(GroupOf(bs, father_id))

\* step 3 for one member of a group of count members
UpdateCMAlwaysLinked(b, count) ==
    Put(Put(Put(b, "n_total", StrOf(count)), "n_pig", NPigOf(b)), "q_link", <<"1">>)
UpdateCM(b, count) ==
    Put(Put(Put(b, "n_total", StrOf(count)), "n_pig", NPigOf(b)),
        "q_link", IF count >= 2 THEN <<"1">> ELSE <<"0">>)

Filled(bs) ==
    FillMissing(bs, 1, [f \in GroupKeys(bs) |-> 0], [f \in GroupKeys(bs) |-> UsedIds(bs, f)])

process_balise_groups(bs) ==
    LET filled == Filled(bs)
    IN  [i \in 1..Len(bs) |->
            IF FatherId(bs[i]) = <<>> THEN SingleCM(bs[i])
            ELSE UpdateCM(filled[i], Count(bs, FatherId(bs[i])))]

\* the widget's copy sets no n_pig
SingleSim(b) == Put(Put(Put(b, "sub_id", <<"0">>), "n_total", <<"1">>), "q_link", <<"0">>)

UpdateSim(b, count) ==
    Put(Put(b, "n_total", StrOf(count)), "q_link", IF count >= 2 THEN <<"1">> ELSE <<"0">>)

process_balise_ids(bs) ==
    LET filled == Filled(bs)
    IN  [i \in 1..Len(bs) |->
            IF FatherId(bs[i]) = <<>> THEN SingleSim(bs[i])
            ELSE UpdateSim(filled[i], Count(bs, FatherId(bs[i])))]

-----------------------------------------------------------------------------
(* The assigner as a state machine: a roster arrives (from the CSV/JSON file  *)
(* or the edit dialogs), ConfigManager normalises it in place on every load   *)
(* and save, and set_config hands a copy to the widget, which runs its own    *)
(* assigner on it.                                                           *)

BaliseNames == <<<<"A">>, <<"B">>, <<"C">>, <<"D">>, <<"E">>>>

Absent == <<"<absent>">>

\* a blank cell (no father), two spellings of father A, and father B
FatherValues == {<<" ">>, <<"A">>, <<"A", " ">>, <<"B">>}

\* no sub_id key, two numeric sub_ids (one with a blank) and a non-numeric one
SubIdValues == {Absent, <<"0">>, <<" ", "1">>, <<"x">>}

\* the record named BaliseNames[i] with the given cells; an Absent cell is no key
MkBalise(i, father, sub_id) ==
    LET named == [k \in {"name"} |-> BaliseNames[i]]
        withF == IF father = Absent THEN named ELSE Put(named, "father_balise", father)
    IN  IF sub_id = Absent THEN withF ELSE Put(withF, "sub_id", sub_id)

\* the roster of n records whose cells are c[i] = <<father_balise, sub_id>>
MkRoster(n, c) == [i \in 1..n |-> MkBalise(i, c[i][1], c[i][2])]

InitGroup ==
    /\ \E n \in 0..MaxBalises : \E c \in [1..n -> FatherValues \X SubIdValues] :
            roster0 = MkRoster(n, c)
    /\ cfg_balises = roster0
    /\ runs = 0
    /\ balises = <<>>
    /\ sim_set = FALSE
    /\ CodecIdle /\ AuthIdle /\ FieldIdle /\ SimIdle

\* MainWindow.create_balise / edit_balise / delete_balise (save_balises, then
\* set_config) and the load of a CSV file (load_balises, then set_config):
\* ConfigManager normalises the list in place, the widget normalises its copy.
\* runs counts the ConfigManager runs up to "twice or more".
SaveAndSetConfig ==
    /\ cfg_balises' = process_balise_groups(cfg_balises)
    /\ runs' = (IF runs < 2 THEN runs + 1 ELSE runs)
    /\ balises' = process_balise_ids(cfg_balises')
    /\ sim_set' = TRUE
    /\ UNCHANGED <<roster0, codecVars, authVars, fieldVars, simVars>>

\* MainWindow.__init__ when only balises.json exists: load_balises returns the
\* file's list as it is, and set_config runs the widget's assigner on its copy
LoadJsonAndSetConfig ==
    /\ runs = 0 /\ ~sim_set
    /\ balises' = process_balise_ids(cfg_balises)
    /\ sim_set' = TRUE
    /\ UNCHANGED <<roster0, cfg_balises, runs, codecVars, authVars, fieldVars, simVars>>

NextGroup == SaveAndSetConfig \/ LoadJsonAndSetConfig

SpecGroup == InitGroup /\ [][NextGroup]_vars

\* the record arrived with a sub_id the assigner accepts as numeric
ArrivedNumeric(i) == IsDigit(Sid(roster0[i]))

SubIdInt(b) == IntOf(Sid(b))

-----------------------------------------------------------------------------
(* C2: after the assigner has run, the records that share a non-empty        *)
(* father_balise value have pairwise distinct non-negative integer sub_ids,   *)
(* also when members arrive with equal user-supplied sub_ids.                 *)
C2_UniqueSubIds ==
    /\ runs >= 1 =>
         \A i, j \in 1..Len(cfg_balises) :
            (i # j /\ FatherId(cfg_balises[i]) # <<>>
                   /\ FatherId(cfg_balises[i]) = FatherId(cfg_balises[j]))
            => /\ IsDigit(Sid(cfg_balises[i])) /\ IsDigit(Sid(cfg_balises[j]))
               /\ SubIdInt(cfg_balises[i]) # SubIdInt(cfg_balises[j])
    /\ sim_set =>
         \A i, j \in 1..Len(balises) :
            (i # j /\ FatherId(balises[i]) # <<>>
                   /\ FatherId(balises[i]) = FatherId(balises[j]))
            => /\ IsDigit(Sid(balises[i])) /\ IsDigit(Sid(balises[j]))
               /\ SubIdInt(balises[i]) # SubIdInt(balises[j])

(* C3: a second run of process_balise_groups on the result of the first       *)
(* changes no record's sub_id, n_total, q_link or n_pig.                      *)
C3_Idempotent ==
    [][runs >= 1 =>
         \A i \in 1..Len(cfg_balises) :
            \A k \in {"sub_id", "n_total", "q_link", "n_pig"} :
                /\ k \in DOMAIN cfg_balises[i] /\ k \in DOMAIN cfg_balises'[i]
                /\ cfg_balises'[i][k] = cfg_balises[i][k]]_vars

\* a second run has happened on a roster where the first run assigned an id
C3_Witness ==
    /\ runs = 2
    /\ \E i \in 1..Len(roster0) :
          /\ FatherId(roster0[i]) # <<>> /\ ~ArrivedNumeric(i)
          /\ cfg_balises[i]["sub_id"] = <<"1">>

\* the members of i's group that arrived without a valid sub_id, before i
EarlierAssigned(i) ==
    {j \in GroupOf(roster0, FatherId(roster0[i])) : j < i /\ ~ArrivedNumeric(j)}

\* what is taken when i's turn comes: the ids present on arrival and the ids
\* given to earlier members in this run
TakenBefore(i) ==
    UsedIds(roster0, FatherId(roster0[i]))
        \cup {SubIdInt(cfg_balises[j]) : j \in EarlierAssigned(i)}

(* C4: in a group, a member that arrives with a numeric sub_id keeps it, and  *)
(* each member without a valid one gets, in roster order, the smallest        *)
(* non-negative integer no member of the group uses, pre-existing or assigned *)
(* earlier in the run.                                                        *)
C4_SmallestUnused ==
    runs >= 1 =>
        \A i \in 1..Len(cfg_balises) :
            FatherId(roster0[i]) # <<>> =>
                IF ArrivedNumeric(i)
                THEN cfg_balises[i]["sub_id"] = roster0[i]["sub_id"]
                ELSE /\ IsDigit(cfg_balises[i]["sub_id"])
                     /\ cfg_balises[i]["sub_id"] = StrOf(SubIdInt(cfg_balises[i]))
                     /\ SubIdInt(cfg_balises[i]) \notin TakenBefore(i)
                     /\ \A n \in 0..(SubIdInt(cfg_balises[i]) - 1) : n \in TakenBefore(i)

\* the example of the specification: [A without father, B father A, C father A
\* sub_id 0]
C4_Witness ==
    /\ runs = 1
    /\ Len(roster0) = 3
    /\ roster0[1] = MkBalise(1, <<" ">>, Absent)
    /\ roster0[2] = MkBalise(2, <<"A">>, Absent)
    /\ roster0[3] = MkBalise(3, <<"A">>, <<"0">>)
    /\ cfg_balises[2]["sub_id"] = <<"1">>
    /\ cfg_balises[3]["sub_id"] = <<"0">>
    /\ cfg_balises[2]["n_total"] = <<"2">> /\ cfg_balises[3]["n_total"] = <<"2">>
    /\ cfg_balises[2]["q_link"] = <<"1">> /\ cfg_balises[3]["q_link"] = <<"1">>

\* the number of records whose father_balise is that of record i
SameFather(i) ==
    Cardinality({j \in 1..Len(roster0) : FatherId(roster0[j]) = FatherId(roster0[i])})

(* C5: after the assigner has run, every record with a non-empty             *)
(* father_balise F has n_total = the number of records whose father_balise is *)
(* F and q_link "1" iff that number is >= 2; a record merely named F, its own *)
(* father_balise empty, is not counted and is a singleton.  (father_balise    *)
(* values are compared as the assigner reads them, surrounding blanks         *)
(* trimmed.)                                                                  *)
C5_GroupCount ==
    runs >= 1 =>
        \A i \in 1..Len(cfg_balises) :
            IF FatherId(roster0[i]) # <<>>
            THEN /\ cfg_balises[i]["n_total"] = StrOf(SameFather(i))
                 /\ cfg_balises[i]["q_link"] = (IF SameFather(i) >= 2 THEN <<"1">> ELSE <<"0">>)
            ELSE /\ cfg_balises[i]["n_total"] = <<"1">>
                 /\ cfg_balises[i]["q_link"] = <<"0">>

\* a group of two under father A, whose namesake A stays a singleton
C5_Witness ==
    /\ runs >= 1
    /\ Len(cfg_balises) = 3
    /\ FatherId(roster0[1]) = <<>>
    /\ FatherId(roster0[2]) = <<"A">> /\ FatherId(roster0[3]) = <<"A">>
    /\ cfg_balises[1]["n_total"] = <<"1">> /\ cfg_balises[1]["q_link"] = <<"0">>
    /\ cfg_balises[2]["n_total"] = <<"2">> /\ cfg_balises[2]["q_link"] = <<"1">>

\* the group of the specification's data model: the records whose father_balise
\* is f together with any record named f
GroupWithNamesake(f) ==
    GroupOf(roster0, f) \cup {i \in 1..Len(roster0) : roster0[i]["name"] = f}

-----------------------------------------------------------------------------
(* SignalAuthorization: SimulationWidget._get_effective_balise_packets        *)

\* None, and a value that is not None (a datetime, a location)
None == <<>>
Some(v) == <<v>>

\* d.get(k) for a dict of optional values
GetOpt(d, k) == IF k \in DOMAIN d THEN d[k] ELSE None

\* self.balise_pass_times.get(balise_index)
LastPass(pass_times, balise_index) ==
    IF balise_index \in DOMAIN pass_times THEN Some(pass_times[balise_index]) ELSE None

\* a or b
OrElse(a, b) == IF a # None THEN a ELSE b

PACKET_TYPE_MAP ==
    {"ETCS-5", "CTCS-1", "ETCS-21", "ETCS-27", "ETCS-41", "ETCS-42", "ETCS-44",
     "ETCS-46", "ETCS-68", "ETCS-72", "ETCS-79", "ETCS-131", "ETCS-132", "ETCS-137",
     "ETCS-254", "CTCS-2", "CTCS-4", "CTCS-5"}

\* self.stations
Stations == <<[name |-> <<"S">>, location |-> 0], [name |-> <<"T">>, location |-> 10],
              [name |-> <<"U">>, location |-> 12], [name |-> <<"V">>, location |-> 15]>>

station_location(name) ==
    IF \E i \in 1..Len(Stations) : Stations[i].name = name
    THEN Some(Stations[CHOOSE i \in 1..Len(Stations) :
                  /\ Stations[i].name = name
                  /\ \A j \in 1..(i - 1) : Stations[j].name # name].location)
    ELSE None

\* get_loc(key, name)
get_loc(train, key, name) ==
    IF GetOpt(train, key) # None THEN GetOpt(train, key) ELSE station_location(name)

\* str(v).strip() is non-empty; a number never prints blank
NonBlank(k, v) == IF k \in {"location", "type"} THEN TRUE ELSE Strip(v) # <<>>

\* "CTCS-5" not in balise or not str(balise["CTCS-5"]).strip()
NoCtcs5AbsentOnly(balise) == "CTCS-5" \notin DOMAIN balise
NoCtcs5(balise) == "CTCS-5" \notin DOMAIN balise \/ Strip(balise["CTCS-5"]) = <<>>

CZ == <<"C", "Z">>

\* station and station in b_name and "CZ" in b_name
StationBalise(station, b_name) ==
    station # <<>> /\ Contains(b_name, station) /\ Contains(b_name, CZ)

\* the branch of the relevance test the train takes for the balise
RelevanceCase(train, balise) ==
    LET s_station == Get(train, "start_station", <<>>)
        e_station == Get(train, "end_station", <<>>)
        t_start == get_loc(train, "start_loc", s_station)
        t_end == get_loc(train, "end_loc", e_station)
        b_name == Get(balise, "name", <<>>)
        b_loc == Get(balise, "location", 0)
    IN  IF StationBalise(s_station, b_name) THEN "start"
        ELSE IF StationBalise(e_station, b_name) THEN "end"
        ELSE IF /\ t_start # None /\ t_end # None
                /\ (IF t_start[1] < t_end[1] THEN t_start[1] ELSE t_end[1]) < b_loc
                /\ b_loc < (IF t_start[1] < t_end[1] THEN t_end[1] ELSE t_start[1])
             THEN "route"
        ELSE "none"

\* target_leave_time
TargetLeaveTime(train, case) ==
    IF ~Get(train, "schedule_managed", FALSE) THEN None
    ELSE IF case = "end" THEN OrElse(GetOpt(train, "leave_end"), GetOpt(train, "leave_time"))
    ELSE IF case \in {"start", "route"}
         THEN OrElse(GetOpt(train, "dep_start"), GetOpt(train, "dep_time"))
    ELSE None

\* the scheduled logic, lines 392-402
ScheduledGreenLate(current_dt, target, last_pass) ==
    /\ current_dt > target
    /\ \/ last_pass = None
       \/ last_pass[1] < target
       \/ current_dt - last_pass[1] < 3
ScheduledGreen(current_dt, target, last_pass) ==
    /\ current_dt >= target
    /\ \/ last_pass = None
       \/ last_pass[1] < target
       \/ current_dt - last_pass[1] < 3

\* the manual logic, lines 407-414
ManualGreenInclusive(current_dt, last_pass) ==
    last_pass = None \/ current_dt - last_pass[1] <= 3
ManualGreen(current_dt, last_pass) ==
    last_pass = None \/ current_dt - last_pass[1] < 3

\* whether the loop body sets is_green for this train
Authorizes(train, balise, last_pass, current_dt) ==
    LET case == RelevanceCase(train, balise)
        is_scheduled == Get(train, "schedule_managed", FALSE)
        target == TargetLeaveTime(train, case)
        should_stop == case = "end" /\ ~is_scheduled
    IN  /\ case # "none"
        /\ ~should_stop
        /\ IF is_scheduled /\ target # None
           THEN ScheduledGreen(current_dt, target[1], last_pass)
           ELSE ~is_scheduled /\ ManualGreen(current_dt, last_pass)

RECURSIVE ScanTrainsUntilStop(_, _, _, _, _)
\* a loop that a manual train ending at the balise's station brings to an end
ScanTrainsUntilStop(ts, i, balise, last_pass, current_dt) ==
    IF i > Len(ts) THEN FALSE
    ELSE IF Authorizes(ts[i], balise, last_pass, current_dt) THEN TRUE
    ELSE IF RelevanceCase(ts[i], balise) = "end" /\ ~Get(ts[i], "schedule_managed", FALSE)
         THEN FALSE
    ELSE ScanTrainsUntilStop(ts, i + 1, balise, last_pass, current_dt)

RECURSIVE ScanTrainsFirstRelevant(_, _, _, _, _)
\* a loop that lets the first relevant train of the roster decide
ScanTrainsFirstRelevant(ts, i, balise, last_pass, current_dt) ==
    IF i > Len(ts) THEN FALSE
    ELSE IF RelevanceCase(ts[i], balise) # "none"
         THEN Authorizes(ts[i], balise, last_pass, current_dt)
    ELSE ScanTrainsFirstRelevant(ts, i + 1, balise, last_pass, current_dt)

RECURSIVE ScanTrains(_, _, _, _, _)
\* for train in self.trains: ... if is_green: break
ScanTrains(ts, i, balise, last_pass, current_dt) ==
    IF i > Len(ts) THEN FALSE
    ELSE IF Authorizes(ts[i], balise, last_pass, current_dt) THEN TRUE
    ELSE ScanTrains(ts, i + 1, balise, last_pass, current_dt)

\* the GREEN content: no CTCS-5, no blank value
GreenContentKeepsBlank(all_packets) ==
    [k \in {x \in DOMAIN all_packets : x # "CTCS-5"} |-> all_packets[k]]
GreenContent(all_packets) ==
    [k \in {x \in DOMAIN all_packets : x # "CTCS-5" /\ NonBlank(x, all_packets[x])} |->
        all_packets[k]]

\* the RED content: every other known packet type removed
RedContent(all_packets) ==
    [k \in {x \in DOMAIN all_packets : x \notin (PACKET_TYPE_MAP \ {"CTCS-5"})} |->
        all_packets[k]]

IsGreenAlways(bs, ts, pass_times, balise_index, current_dt) == TRUE
IsGreen(bs, ts, pass_times, balise_index, current_dt) ==
    ScanTrains(ts, 1, bs[balise_index], LastPass(pass_times, balise_index), current_dt)

get_effective_balise_packets(bs, ts, pass_times, balise_index, current_dt) ==
    LET balise == bs[balise_index]
    IN  IF NoCtcs5(balise) THEN balise
        ELSE IF IsGreen(bs, ts, pass_times, balise_index, current_dt)
             THEN GreenContent(balise)
        ELSE RedContent(balise)

-----------------------------------------------------------------------------
(* The authorization engine as a state machine: one balise of the widget's    *)
(* roster and a train roster are given; the coarse clock advances, crossings  *)
(* record pass times, and a stop clears them.                                 *)

\* a telegram of the balise, opaque to the authorization engine
Telegram == <<"1", "0", "1">>

\* where the balises of the model stand: the exit balise of S, a balise on the
\* open line, the exit balise of T
AuthBaliseSites == {<<<<"S", "C", "Z">>, 1>>, <<<<"M", "1">>, 5>>, <<<<"T", "C", "Z">>, 9>>}

\* CTCS-5 as configured: no key, a blank cell, a telegram
Ctcs5Values == {Absent, <<" ">>, Telegram}

MkAuthBalise(site, ctcs5) ==
    LET base == [k \in {"name", "location", "father_balise", "nid_bg", "m_dup",
                        "ETCS-27", "ETCS-42"} |->
                   CASE k = "name" -> site[1]
                     [] k = "location" -> site[2]
                     [] k = "father_balise" -> <<>>
                     [] k = "nid_bg" -> <<"7">>
                     [] k = "m_dup" -> <<>>
                     [] k = "ETCS-27" -> Telegram
                     [] k = "ETCS-42" -> <<" ">>]
    IN  IF ctcs5 = Absent THEN base ELSE Put(base, "CTCS-5", ctcs5)

\* a manual train as reset_train_positions leaves it
ManualTrain(s_station, e_station, start_loc, end_loc) ==
    [k \in {"start_station", "end_station", "start_loc", "end_loc"} |->
        CASE k = "start_station" -> s_station
          [] k = "end_station" -> e_station
          [] k = "start_loc" -> Some(start_loc)
          [] k = "end_loc" -> Some(end_loc)]

\* a train as _create_schedule_train builds it
ScheduleTrain(s_station, e_station, start_loc, end_loc, dep, leave_t) ==
    [k \in {"start_station", "end_station", "start_loc", "end_loc", "schedule_managed",
            "dep_time", "leave_time"} |->
        CASE k = "start_station" -> s_station
          [] k = "end_station" -> e_station
          [] k = "start_loc" -> Some(start_loc)
          [] k = "end_loc" -> Some(end_loc)
          [] k = "schedule_managed" -> TRUE
          [] k = "dep_time" -> dep
          [] k = "leave_time" -> leave_t]

TrainKinds ==
    {ManualTrain(<<"S">>, <<"T">>, 0, 10),
     ManualTrain(<<"T">>, <<"S">>, 10, 0),
     ManualTrain(<<>>, <<>>, 0, 20),
     ManualTrain(<<"U">>, <<"V">>, 12, 15),
     ScheduleTrain(<<"S">>, <<"T">>, 0, 10, Some(DepT), Some(LeaveT)),
     ScheduleTrain(<<"T">>, <<"S">>, 10, 0, Some(DepT), Some(LeaveT)),
     ScheduleTrain(<<"S">>, <<"T">>, 0, 10, None, Some(LeaveT))}

InitAuth ==
    /\ \E site \in AuthBaliseSites : \E ctcs5 \in Ctcs5Values :
            balises = process_balise_ids(<<MkAuthBalise(site, ctcs5)>>)
    /\ \E n \in 0..MaxTrains : trains \in [1..n -> TrainKinds]
    /\ balise_pass_times = NoDict
    /\ current_sim_time = 0
    /\ roster0 = <<>> /\ cfg_balises = <<>> /\ runs = 0 /\ sim_set = TRUE
    /\ CodecIdle /\ FieldIdle /\ SimIdle

\* tick_sim_time: the clock follows the wall clock in whole seconds, so a late
\* tick skips a second.  The roster is the engine's input and stays as drawn.
tick_sim_time ==
    /\ \E d \in 1..2 :
          /\ current_sim_time + d <= MaxTime
          /\ current_sim_time' = current_sim_time + d
    /\ UNCHANGED <<balises, trains, balise_pass_times, groupVars, codecVars, fieldVars, simVars>>

\* _process_balise_crossing reaching balise i: the pass time is the simulated time
process_balise_crossing(i) ==
    /\ balise_pass_times' = Put(balise_pass_times, i, current_sim_time)
    /\ UNCHANGED <<balises, trains, current_sim_time, groupVars, codecVars, fieldVars, simVars>>

\* stop_simulation: the pass history is cleared; manual trains keep the
\* start_loc and end_loc that reset_train_positions gives them again
stop_simulation ==
    /\ balise_pass_times' = NoDict
    /\ UNCHANGED <<balises, trains, current_sim_time, groupVars, codecVars, fieldVars, simVars>>

NextAuth ==
    \/ tick_sim_time
    \/ \E i \in 1..Len(balises) : process_balise_crossing(i)
    \/ stop_simulation

SpecAuth == InitAuth /\ [][NextAuth]_vars

\* what the engine returns for the balise now
Effective == get_effective_balise_packets(balises, trains, balise_pass_times, 1,
                                          current_sim_time)

ReturnsGreen == "CTCS-5" \notin DOMAIN Effective

Ctcs5Configured == "CTCS-5" \in DOMAIN balises[1] /\ Strip(balises[1]["CTCS-5"]) # <<>>

\* relevance in the words of the specification
NameCase(station) ==
    /\ station # <<>>
    /\ Contains(balises[1]["name"], station)
    /\ Contains(balises[1]["name"], <<"C", "Z">>)

CaseA(t) == NameCase(t["start_station"])
CaseB(t) == ~CaseA(t) /\ NameCase(t["end_station"])
CaseC(t) ==
    /\ ~CaseA(t) /\ ~NameCase(t["end_station"])
    /\ \/ t["start_loc"][1] < balises[1]["location"] /\ balises[1]["location"] < t["end_loc"][1]
       \/ t["end_loc"][1] < balises[1]["location"] /\ balises[1]["location"] < t["start_loc"][1]

RelevantTrains == {i \in 1..Len(trains) : CaseA(trains[i]) \/ CaseB(trains[i]) \/ CaseC(trains[i])}

IsScheduled(t) == "schedule_managed" \in DOMAIN t /\ t["schedule_managed"]

\* the target time of a schedule-managed train: leave time at its end station,
\* departure time otherwise
TargetOf(t) == IF CaseB(t) THEN t["leave_time"] ELSE t["dep_time"]

PassRecorded == 1 \in DOMAIN balise_pass_times

-----------------------------------------------------------------------------
C8_DefaultRed ==
    (Ctcs5Configured /\ RelevantTrains = {}) =>
        /\ "CTCS-5" \in DOMAIN Effective
        /\ Effective["CTCS-5"] = balises[1]["CTCS-5"]
        /\ \A k \in DOMAIN balises[1] \ PACKET_TYPE_MAP :
              k \in DOMAIN Effective /\ Effective[k] = balises[1][k]
        /\ DOMAIN Effective \cap PACKET_TYPE_MAP = {"CTCS-5"}

\* a roster of two trains, neither relevant to the balise on the open line
C8_Witness ==
    /\ Ctcs5Configured
    /\ balises[1]["name"] = <<"M", "1">>
    /\ Len(trains) = 2 /\ RelevantTrains = {}
    /\ PassRecorded /\ current_sim_time > balise_pass_times[1]
    /\ "ETCS-27" \notin DOMAIN Effective /\ "CTCS-5" \in DOMAIN Effective

(* C9: a balise whose CTCS-5 is absent or blank presents its full configured  *)
(* record, unchanged, for every roster, time and pass-time map.               *)
C9_NoCtcs5Unmodified ==
    ~Ctcs5Configured => Effective = balises[1]

\* a blank CTCS-5 cell, a relevant manual train, a pass recorded long ago
C9_Witness ==
    /\ "CTCS-5" \in DOMAIN balises[1] /\ ~Ctcs5Configured
    /\ RelevantTrains # {}
    /\ PassRecorded /\ current_sim_time - balise_pass_times[1] >= 3
    /\ Effective = balises[1]

\* the single relevant train is manual, in case a or c
OnlyManualAC ==
    \E i \in 1..Len(trains) :
        /\ RelevantTrains = {i}
        /\ ~IsScheduled(trains[i])
        /\ (CaseA(trains[i]) \/ CaseC(trains[i]))

BlankValue(k, v) == k \notin {"location", "type"} /\ Strip(v) = <<>>

(* C11: for a balise with CTCS-5 configured the engine's content has one of   *)
(* two shapes.  GREEN: no CTCS-5 key, no key with an empty or blank value,    *)
(* every other key kept with its configured value.  RED: no known packet-type *)
(* key other than CTCS-5; CTCS-5 and every header field kept as configured.   *)
C11_TwoShapes ==
    Ctcs5Configured =>
        LET b == balises[1]
            GreenShape ==
                /\ "CTCS-5" \notin DOMAIN Effective
                /\ DOMAIN Effective \subseteq DOMAIN b
                /\ \A k \in DOMAIN Effective : ~BlankValue(k, Effective[k])
                /\ \A k \in DOMAIN b \ {"CTCS-5"} :
                      ~BlankValue(k, b[k]) => (k \in DOMAIN Effective /\ Effective[k] = b[k])
            RedShape ==
                /\ DOMAIN Effective \subseteq DOMAIN b
                /\ DOMAIN Effective \cap PACKET_TYPE_MAP = {"CTCS-5"}
                /\ \A k \in (DOMAIN b \ PACKET_TYPE_MAP) \cup {"CTCS-5"} :
                      k \in DOMAIN Effective /\ Effective[k] = b[k]
        IN  GreenShape \/ RedShape

\* GREEN after a recent pass: the blank header m_dup and the blank ETCS-42 are
\* dropped, ETCS-27 is presented
C11_Witness ==
    /\ Ctcs5Configured /\ ReturnsGreen
    /\ PassRecorded /\ current_sim_time > balise_pass_times[1]
    /\ "m_dup" \in DOMAIN balises[1] /\ "m_dup" \notin DOMAIN Effective
    /\ "ETCS-42" \notin DOMAIN Effective
    /\ "ETCS-27" \in DOMAIN Effective

-----------------------------------------------------------------------------
(* The field encoder on its own: int_to_bin applied to any integer.           *)

\* widths 1..MaxBits
MaxBits == 4
\* values -MaxMagnitude..MaxMagnitude
MaxMagnitude == 40

InitField ==
    /\ arg_value \in (0 - MaxMagnitude)..MaxMagnitude
    /\ arg_bits \in 1..MaxBits
    /\ bin_str = <<>>
    /\ cpc = "start"
    /\ packet_name = "" /\ data = NoDict /\ result = NoDict
    /\ GroupIdle /\ AuthIdle /\ SimIdle /\ balises = <<>>

IntToBin ==
    /\ cpc = "start"
    /\ bin_str' = int_to_bin(arg_value, arg_bits)
    /\ cpc' = "encoded"
    /\ UNCHANGED <<packet_name, data, result, fieldVars, groupVars, balises, authVars,
                   simVars>>

NextField == IntToBin

SpecField == InitField /\ [][NextField]_vars

(* C19: for every integer v, negative and oversized ones included, and every  *)
(* width bits >= 1, int_to_bin(v, bits) is a string of exactly bits           *)
(* characters, each 0 or 1, that reads as v mod 2^bits.                       *)
C19_ModularEncoding ==
    cpc = "encoded" =>
        /\ Len(bin_str) = arg_bits
        /\ \A i \in 1..Len(bin_str) : bin_str[i] \in {"0", "1"}
        /\ bin_to_int(bin_str) = arg_value % Pow2(arg_bits)

-----------------------------------------------------------------------------
\* the fields of packet p that encode_packet emits for the caller's mapping d
PresentFields(p, d) ==
    {i \in 1..Len(PACKET_DEFS[p]) : CondHolds(PACKET_DEFS[p][i].cond, d)}

RECURSIVE SumLen(_, _)
SumLen(p, S) ==
    IF S = {} THEN 0
    ELSE LET i == CHOOSE x \in S : TRUE IN PACKET_DEFS[p][i].len + SumLen(p, S \ {i})

(* C20: the telegram of encode_packet is, field by field in schema order for  *)
(* the fields whose presence condition holds, the fixed value when the field  *)
(* has one (whatever the caller supplies under that name), else the caller's  *)
(* value, else 0, each in exactly the field's width.                          *)
C20_EncodeLayout ==
    cpc \in {"encoded", "decoded"} =>
        LET defs == PACKET_DEFS[packet_name]
            present == PresentFields(packet_name, data)
        IN  /\ Len(bin_str) = SumLen(packet_name, present)
            /\ \A i \in present :
                  LET off == SumLen(packet_name, {j \in present : j < i})
                      bits == SubSeq(bin_str, off + 1, off + defs[i].len)
                      want == IF defs[i].fixed THEN defs[i].val
                              ELSE IF defs[i].name \in DOMAIN data THEN data[defs[i].name]
                              ELSE 0
                  IN  /\ \A c \in 1..Len(bits) : bits[c] \in {"0", "1"}
                      /\ bin_to_int(bits) = want

\* the specification's example: CTCS-5 with Q_DIR 1 and Q_STOP 1
C20_Witness ==
    /\ cpc = "encoded"
    /\ packet_name = "CTCS-5"
    /\ DOMAIN data = {"Q_DIR", "Q_STOP"} /\ data["Q_DIR"] = 1 /\ data["Q_STOP"] = 1
    /\ bin_str = <<"0", "0", "0", "0", "0", "0", "1", "0", "1">> \o <<"0", "1">> \o <<"1">>

-----------------------------------------------------------------------------
(* SimulationEngine: the train dictionaries and the operations of             *)
(* SimulationWidget on them.  A train's start_loc, end_loc, dep_time,         *)
(* arr_time and leave_time are None or Some(v), as the authorization engine   *)
(* reads them; an active restriction is [start_km, end_km, speed] with end_km *)
(* None or Some(v).                                                           *)

\* self.line_config.get("max_speed", 350.0), in speed units
LineMaxSpeed == 4

Min2(a, b) == IF a < b THEN a ELSE b
Max2(a, b) == IF a > b THEN a ELSE b

RECURSIVE MaxLocation(_, _)
\* the largest "location" of a list of records, 0 for none
MaxLocation(recs, i) ==
    IF i > Len(recs) THEN 0
    ELSE Max2(Get(recs[i], "location", 0), MaxLocation(recs, i + 1))

\* self.track_length when the line configuration gives no total_length
track_length(bs) == Max2(Max2(MaxLocation(bs, 1), MaxLocation(Stations, 1)) + 10, 20)

\* for r in restrs: if r["end_km"] is not None and loc > r["end_km"]: continue
Expired(r, loc) == r.end_km # None /\ loc > r.end_km[1]
StillValid(restrs, loc) == SelectSeq(restrs, LAMBDA r : ~Expired(r, loc))

RECURSIVE LimitFromPastStart(_, _, _, _)
\* the limit when a restriction applies from its start_km on, the start excluded
LimitFromPastStart(valid_restrs, i, loc, limit) ==
    IF i > Len(valid_restrs) THEN limit
    ELSE LimitFromPastStart(valid_restrs, i + 1, loc,
                   IF loc > valid_restrs[i].start_km /\ valid_restrs[i].speed < limit
                   THEN valid_restrs[i].speed ELSE limit)

RECURSIVE LimitFrom(_, _, _, _)
\* for r in valid_restrs: if loc >= r["start_km"]: if r["speed"] < limit: limit = r["speed"]
LimitFrom(valid_restrs, i, loc, limit) ==
    IF i > Len(valid_restrs) THEN limit
    ELSE LimitFrom(valid_restrs, i + 1, loc,
                   IF loc >= valid_restrs[i].start_km /\ valid_restrs[i].speed < limit
                   THEN valid_restrs[i].speed ELSE limit)

check_restrictions(train) ==
    LET loc == Get(train, "current_location", 0)
        valid_restrs == StillValid(Get(train, "active_restrictions", <<>>), loc)
        base == Get(train, "base_speed", LineMaxSpeed)
    IN  Put(Put(train, "active_restrictions", valid_restrs),
            "current_speed_limit", LimitFrom(valid_restrs, 1, loc, base))

\* PacketUtils.get_q_scale_factor, in decimetres: 0.1 m, 1 m, 10 m, else 1 m
get_q_scale_factor(code) ==
    CASE code = 0 -> 1
      [] code = 1 -> 10
      [] code = 2 -> 100
      [] OTHER -> 10

\* d * scale / 1000.0 km in location units of 0.8 m (8 dm); the telegrams of
\* the model carry distances that are whole location units
DistUnits(d, scale) == (d * scale) \div 8

\* val and isinstance(val, str) and len(val) > 8
IsTelegram(val) == Len(val) > 8

\* the absolute stop of handle_balise_pass, lines 962-970
AbsoluteStop(train) ==
    Put(Put(Put(train, "current_speed_limit", 0), "base_speed", 0), "active_restrictions", <<>>)

\* CTCS-2, lines 974-998: a temporary speed restriction is appended
ApplyTsr(train, val, b_loc) ==
    LET pkt == decode_packet("CTCS-2", val)
        scale == get_q_scale_factor(Get(pkt, "Q_SCALE", 1))
        start_km == b_loc + DistUnits(Get(pkt, "D_TSR", 0), scale)
        end_km == start_km + DistUnits(Get(pkt, "L_TSR", 0), scale)
        restr == [start_km |-> start_km, end_km |-> Some(end_km),
                  speed |-> Get(pkt, "V_TSR", 0)]
    IN  Put(train, "active_restrictions", Append(train["active_restrictions"], restr))

\* an ETCS-27 handler that holds the speed back as an open-ended restriction
\* from the offset on when D_STATIC is not zero
ApplySspDelayed(train, val) ==
    LET pkt == decode_packet("ETCS-27", val)
        v_static_code == Get(pkt, "V_STATIC", 127)
    IN  IF v_static_code # 127 /\ Get(pkt, "D_STATIC", 0) # 0
        THEN Put(train, "active_restrictions",
                 Append(train["active_restrictions"],
                        [start_km |-> 0, end_km |-> None, speed |-> v_static_code]))
        ELSE Put(train, "base_speed",
                 IF v_static_code = 127 THEN LineMaxSpeed ELSE v_static_code)

\* ETCS-27, lines 1002-1046: the base speed is set, whatever D_STATIC is
ApplySsp(train, val) ==
    LET pkt == decode_packet("ETCS-27", val)
        v_static_code == Get(pkt, "V_STATIC", 127)
    IN  Put(train, "base_speed", IF v_static_code = 127 THEN LineMaxSpeed ELSE v_static_code)

\* the fallback of lines 1053-1060: a speed_limit cell in km/h
ApplySpeedLimitCell(train, effective_balise) ==
    IF /\ "speed_limit" \in DOMAIN effective_balise
       /\ Strip(effective_balise["speed_limit"]) # <<>>
       /\ IsDigit(Strip(effective_balise["speed_limit"]))
    THEN Put(train, "base_speed", IntOf(effective_balise["speed_limit"]) \div 5)
    ELSE train

\* int(chunk, 2) raises ValueError on a chunk with a character that is no
\* binary digit (the telegrams of the model hold "0", "1", "2" and "x")
IsBinary(s) == \A i \in 1..Len(s) : s[i] \in {"0", "1"}

RECURSIVE DecodeRaises(_, _, _, _, _)
\* whether the loop of decode_packet raises: a field that is present and fits
\* is read from a chunk that int cannot convert
DecodeRaises(defs, i, s, ptr, res) ==
    IF i > Len(defs) THEN FALSE
    ELSE LET field == defs[i]
         IN  IF ~CondHolds(field.cond, res) THEN DecodeRaises(defs, i + 1, s, ptr, res)
             ELSE IF ptr + field.len > Len(s) THEN FALSE
             ELSE IF ~IsBinary(SubSeq(s, ptr + 1, ptr + field.len)) THEN TRUE
             ELSE DecodeRaises(defs, i + 1, s, ptr + field.len,
                     M1(res, [k \in {field.name} |->
                                 bin_to_int(SubSeq(s, ptr + 1, ptr + field.len))]))

\* decode_packet(p, s) raises instead of returning
decode_raises(p, s) == p \in DOMAIN PACKET_DEFS /\ DecodeRaises(PACKET_DEFS[p], 1, s, 0, <<>>)

\* the three packet blocks of handle_balise_pass, each an if around its body;
\* the body of the CTCS-2 and of the ETCS-27 block is a try whose except passes,
\* and decode_packet is its first statement
HasStop(effective_balise) == "CTCS-5" \in DOMAIN effective_balise
HasTsr(effective_balise) ==
    /\ "CTCS-2" \in DOMAIN effective_balise /\ IsTelegram(effective_balise["CTCS-2"])
    /\ ~decode_raises("CTCS-2", effective_balise["CTCS-2"])
HasSsp(effective_balise) ==
    /\ "ETCS-27" \in DOMAIN effective_balise /\ IsTelegram(effective_balise["ETCS-27"])
    /\ ~decode_raises("ETCS-27", effective_balise["ETCS-27"])

StopBlock(train, effective_balise) ==
    IF HasStop(effective_balise) THEN AbsoluteStop(train) ELSE train
TsrBlock(train, effective_balise, b_loc) ==
    IF HasTsr(effective_balise) THEN ApplyTsr(train, effective_balise["CTCS-2"], b_loc)
    ELSE train
SspBlock(train, effective_balise) ==
    IF HasSsp(effective_balise) THEN ApplySsp(train, effective_balise["ETCS-27"])
    ELSE train
\* if log_packets: ... else: the speed_limit cell
LogBlock(train, effective_balise) ==
    IF HasStop(effective_balise) \/ HasTsr(effective_balise) \/ HasSsp(effective_balise)
    THEN train
    ELSE ApplySpeedLimitCell(train, effective_balise)

\* a handler with one try around all blocks: a CTCS-2 telegram that cannot be
\* decoded ends the handling of the balise
ApplyPacketsOneTry(train, effective_balise, b_loc) ==
    IF /\ "CTCS-2" \in DOMAIN effective_balise /\ IsTelegram(effective_balise["CTCS-2"])
       /\ decode_raises("CTCS-2", effective_balise["CTCS-2"])
    THEN StopBlock(train, effective_balise)
    ELSE LogBlock(SspBlock(TsrBlock(StopBlock(train, effective_balise), effective_balise,
                                    b_loc),
                           effective_balise),
                  effective_balise)

\* the body of handle_balise_pass once the effective content is known
ApplyPackets(train, effective_balise, b_loc) ==
    LogBlock(SspBlock(TsrBlock(StopBlock(train, effective_balise), effective_balise, b_loc),
                      effective_balise),
             effective_balise)

\* handle_balise_pass(train, balise, index) with index >= 0
handle_balise_pass(train, bs, ts, pass_times, index, current_dt) ==
    ApplyPackets(train, get_effective_balise_packets(bs, ts, pass_times, index, current_dt),
                 Get(bs[index], "location", 0))

\* the start_loc and end_loc reset_train_positions computes for a manual train
ResetStartLoc(train) ==
    LET loc == station_location(Get(train, "start_station", <<>>))
    IN  IF Get(train, "start_station", <<>>) # <<>> /\ loc # None THEN loc[1] ELSE 0

ResetEndLoc(train, bs) ==
    LET loc == station_location(Get(train, "end_station", <<>>))
    IN  IF Get(train, "end_station", <<>>) # <<>> /\ loc # None THEN loc[1]
        ELSE track_length(bs)

\* the body of reset_train_positions for one manual train
ResetTrainKeepsRestrictions(train, bs) ==
    LET initial_speed == Get(train, "initial_speed", 0)
    IN  M1(train, [k \in {"current_location", "start_loc", "end_loc",
                          "current_speed_limit", "base_speed"} |->
            CASE k = "current_location" -> ResetStartLoc(train)
              [] k = "start_loc" -> Some(ResetStartLoc(train))
              [] k = "end_loc" -> Some(ResetEndLoc(train, bs))
              [] k = "current_speed_limit" -> initial_speed
              [] k = "base_speed" ->
                    IF initial_speed > 0 THEN initial_speed ELSE LineMaxSpeed])
ResetTrain(train, bs) ==
    LET initial_speed == Get(train, "initial_speed", 0)
    IN  M1(train, [k \in {"current_location", "start_loc", "end_loc",
                          "current_speed_limit", "base_speed", "active_restrictions"} |->
            CASE k = "current_location" -> ResetStartLoc(train)
              [] k = "start_loc" -> Some(ResetStartLoc(train))
              [] k = "end_loc" -> Some(ResetEndLoc(train, bs))
              [] k = "current_speed_limit" -> initial_speed
              [] k = "base_speed" ->
                    IF initial_speed > 0 THEN initial_speed ELSE LineMaxSpeed
              [] k = "active_restrictions" -> <<>>])

\* reset_train_positions: schedule-managed trains are skipped
reset_train_positions(ts, bs) ==
    [i \in 1..Len(ts) |->
        IF Get(ts[i], "schedule_managed", FALSE) THEN ts[i] ELSE ResetTrain(ts[i], bs)]

-----------------------------------------------------------------------------
(* check_restrictions on its own: applied to a train at any location with any *)
(* base speed and any list of restrictions.                                   *)

\* a train holds at most this many restrictions
MaxRestr == 2
\* locations 0..MaxPos
MaxPos == 7

\* the restrictions a train may hold: a window, an overlapping slower window,
\* an open-ended one, a window of one point
RestrictionKinds ==
    {[start_km |-> 2, end_km |-> Some(4), speed |-> 2],
     [start_km |-> 3, end_km |-> Some(6), speed |-> 1],
     [start_km |-> 1, end_km |-> None, speed |-> 3],
     [start_km |-> 5, end_km |-> Some(5), speed |-> 0]}

RestrictionLists == UNION {[1..n -> RestrictionKinds] : n \in 0..MaxRestr}

RestrictedTrain(loc, base, restrs) ==
    [k \in {"current_location", "base_speed", "current_speed_limit", "active_restrictions"} |->
        CASE k = "current_location" -> loc
          [] k = "base_speed" -> base
          [] k = "current_speed_limit" -> base
          [] k = "active_restrictions" -> restrs]

InitRestrict ==
    /\ \E loc \in 0..MaxPos : \E base \in 0..LineMaxSpeed : \E restrs \in RestrictionLists :
            trains = <<RestrictedTrain(loc, base, restrs)>>
    /\ result = NoDict
    /\ cpc = "start"
    /\ packet_name = "" /\ data = NoDict /\ bin_str = <<>>
    /\ balise_pass_times = NoDict /\ current_sim_time = 0
    /\ GroupIdle /\ FieldIdle /\ SimIdle /\ balises = <<>>

\* check_restrictions(train); result is the train after the call
CheckRestrictions ==
    /\ cpc = "start"
    /\ result' = check_restrictions(trains[1])
    /\ cpc' = "checked"
    /\ UNCHANGED <<packet_name, data, bin_str, fieldVars, groupVars, balises, authVars,
                   simVars>>

NextRestrict == CheckRestrictions

SpecRestrict == InitRestrict /\ [][NextRestrict]_vars

\* the smallest element of a non-empty set of numbers
SetMin(S) == CHOOSE x \in S : \A y \in S : x <= y

(* C13: check_restrictions removes exactly the restrictions whose end_km is   *)
(* set and smaller than the current location, keeps the others in order, and  *)
(* sets current_speed_limit to the minimum of base_speed and the speeds of    *)
(* the remaining restrictions whose start_km <= location; a single window     *)
(* [s, e] of speed v gives min(base_speed, v) on s..e and base_speed past e.  *)
C13_RestrictionLimit ==
    cpc = "checked" =>
        LET before == trains[1]
            loc == before["current_location"]
            restrs == before["active_restrictions"]
            kept == SelectSeq(restrs, LAMBDA r : ~(r.end_km # None /\ r.end_km[1] < loc))
            applied == {kept[i].speed : i \in {j \in 1..Len(kept) : kept[j].start_km <= loc}}
        IN  /\ result["active_restrictions"] = kept
            /\ result["current_speed_limit"] = SetMin({before["base_speed"]} \cup applied)
            /\ result["base_speed"] = before["base_speed"]
            /\ result["current_location"] = loc
            /\ (Len(restrs) = 1 /\ restrs[1].end_km # None) =>
                  /\ (restrs[1].start_km <= loc /\ loc <= restrs[1].end_km[1])
                        => result["current_speed_limit"] =
                               Min2(before["base_speed"], restrs[1].speed)
                  /\ loc > restrs[1].end_km[1]
                        => /\ result["current_speed_limit"] = before["base_speed"]
                           /\ result["active_restrictions"] = <<>>

\* a passed window is dropped while a slower one that still applies caps the limit
C13_Witness ==
    /\ cpc = "checked"
    /\ trains[1]["current_location"] = 5 /\ trains[1]["base_speed"] = 4
    /\ Len(trains[1]["active_restrictions"]) = 2
    /\ trains[1]["active_restrictions"][1].end_km = Some(4)
    /\ Len(result["active_restrictions"]) = 1
    /\ result["current_speed_limit"] = 1

-----------------------------------------------------------------------------
(* The balises of the simulated line.                                         *)

\* CTCS-5 absolute stop
StopTelegram == encode_packet("CTCS-5", ("Q_DIR" :> 1) @@ ("Q_STOP" :> 1))
\* ETCS-27 with V_STATIC 2: a line speed of 10 km/h, 2 speed units
SspTelegram == encode_packet("ETCS-27", ("Q_SCALE" :> 1) @@ ("V_STATIC" :> 2))
\* CTCS-2 with V_TSR 1 over 1.6 m from 0.8 m behind the balise: speed 1 on
\* b_loc + 1 .. b_loc + 3
TsrTelegram ==
    encode_packet("CTCS-2", ("Q_SCALE" :> 0) @@ ("V_TSR" :> 1) @@ ("D_TSR" :> 8)
                            @@ ("L_TSR" :> 16))

\* CTCS-2 in metres: V_TSR 20 (100 km/h) over 100 m from the balise on, speed
\* 20 on b_loc .. b_loc + 125
MetreTsrTelegram ==
    encode_packet("CTCS-2", ("Q_SCALE" :> 1) @@ ("V_TSR" :> 20) @@ ("D_TSR" :> 0)
                            @@ ("L_TSR" :> 100))

\* what a balise is configured with
PacketSets ==
    {("CTCS-5" :> StopTelegram) @@ ("ETCS-27" :> SspTelegram),
     ("CTCS-5" :> <<" ">>) @@ ("ETCS-27" :> SspTelegram),
     ("ETCS-27" :> SspTelegram),
     ("CTCS-2" :> TsrTelegram),
     ("CTCS-2" :> MetreTsrTelegram),
     ("CTCS-5" :> <<" ">>) @@ ("CTCS-2" :> TsrTelegram)}

MkSimBalise(site, packets) ==
    M1([k \in {"name", "location", "father_balise"} |->
           CASE k = "name" -> site[1]
             [] k = "location" -> site[2]
             [] k = "father_balise" -> <<>>],
       packets)

-----------------------------------------------------------------------------
(* handle_balise_pass on its own: a train of the roster is at a balise, the   *)
(* crossing has just been recorded, and the balise's packets are applied.     *)

InitPass ==
    /\ \E site \in AuthBaliseSites : \E packets \in PacketSets :
            balises = process_balise_ids(<<MkSimBalise(site, packets)>>)
    /\ \E kind \in TrainKinds : \E restrs \in RestrictionLists :
            trains = <<M1(kind, RestrictedTrain(balises[1]["location"], LineMaxSpeed,
                                                restrs))>>
    /\ current_sim_time \in 0..MaxTime
    /\ balise_pass_times = (1 :> current_sim_time)
    /\ result = NoDict
    /\ cpc = "start"
    /\ packet_name = "" /\ data = NoDict /\ bin_str = <<>>
    /\ roster0 = <<>> /\ cfg_balises = <<>> /\ runs = 0 /\ sim_set = TRUE
    /\ FieldIdle /\ SimIdle

\* handle_balise_pass(train, balise, 0); result is the train after the call
HandleBalisePass ==
    /\ cpc = "start"
    /\ result' = handle_balise_pass(trains[1], balises, trains, balise_pass_times, 1,
                                    current_sim_time)
    /\ cpc' = "handled"
    /\ UNCHANGED <<packet_name, data, bin_str, fieldVars, groupVars, balises, authVars,
                   simVars>>

NextPass == HandleBalisePass

SpecPass == InitPass /\ [][NextPass]_vars

C14_StopTelegram ==
    (cpc = "handled" /\ Ctcs5Configured /\ "CTCS-5" \in DOMAIN Effective) =>
        /\ result["current_speed_limit"] = 0
        /\ result["base_speed"] = 0
        /\ result["active_restrictions"] = <<>>

-----------------------------------------------------------------------------
(* One simulation tick, train by train.  A step result is the pair           *)
(* [train, pass_times]; nobody presses the jump key, so jump_h stays 0.      *)

\* the crossing of one balise: the pass time is recorded, then the packets apply
CrossOne(train, k, bs, ts, times, current_dt, i) ==
    [train |-> handle_balise_pass(train, bs, [ts EXCEPT ![k] = train], times, i, current_dt),
     pass_times |-> times]

\* start <= b_loc <= end
Between(b_loc, old_pos, new_pos) ==
    Min2(old_pos, new_pos) <= b_loc /\ b_loc <= Max2(old_pos, new_pos)

\* if train.get("jump_h", 0) > 0: continue
InJump(train) == Get(train, "jump_h", 0) > 0

\* the pass recorded only after the crossed balise's content has been applied
CrossOneStale(train, k, bs, ts, times, current_dt, i) ==
    [train |-> handle_balise_pass(train, bs, [ts EXCEPT ![k] = train], times, i, current_dt),
     pass_times |-> Put(times, i, current_dt)]

RECURSIVE CrossFromStale(_, _, _, _, _, _, _, _)
\* a crossing that evaluates the content of a balise against the pass times as
\* they were before the crossing
CrossFromStale(c, k, old_pos, new_pos, bs, ts, current_dt, i) ==
    IF i > Len(bs) THEN c
    ELSE CrossFromStale(IF /\ Between(Get(bs[i], "location", 0), old_pos, new_pos)
                           /\ ~InJump(c.train)
                        THEN CrossOneStale(c.train, k, bs, ts, c.pass_times, current_dt, i)
                        ELSE c,
                        k, old_pos, new_pos, bs, ts, current_dt, i + 1)

RECURSIVE CrossFrom(_, _, _, _, _, _, _, _)
\* _process_balise_crossing(train, old_pos, new_pos), from balise i on; c holds
\* the train (at index k of ts) and the pass times as they are by then
CrossFrom(c, k, old_pos, new_pos, bs, ts, current_dt, i) ==
    IF i > Len(bs) THEN c
    ELSE CrossFrom(IF /\ Between(Get(bs[i], "location", 0), old_pos, new_pos)
                      /\ ~InJump(c.train)
                   THEN CrossOne(c.train, k, bs, ts, Put(c.pass_times, i, current_dt),
                                 current_dt, i)
                   ELSE c,
                   k, old_pos, new_pos, bs, ts, current_dt, i + 1)

\* the schedule-managed branch of update_simulation, lines 767-820, in its
\* three blocks; m holds the train, its status and new_pos

\* a waiting block that lets the train depart whatever the time is
WaitingBlockEarly(m, sim_t) ==
    IF m.status # "waiting" THEN m
    ELSE [m EXCEPT !.train = Put(@, "current_speed_limit", 0), !.status = "traveling"]

\* if status == "waiting"
WaitingBlock(m, sim_t) ==
    IF m.status # "waiting" THEN m
    ELSE [m EXCEPT !.train = Put(@, "current_speed_limit", 0),
                   !.status = IF GetOpt(m.train, "dep_time") # None
                                 /\ sim_t >= m.train["dep_time"][1]
                              THEN "traveling" ELSE "waiting"]

\* the step of a traveling train whose limit has been recomputed
StepLimit(train) ==
    IF Get(train, "current_speed_limit", Get(train, "base_speed", 20)) <= 0
    THEN Get(train, "base_speed", 20)
    ELSE Get(train, "current_speed_limit", Get(train, "base_speed", 20))

\* (end_loc >= start_loc and new_pos >= end_loc) or (end_loc < start_loc and new_pos <= end_loc)
Clamped(start_loc, end_loc, new_pos) ==
    \/ end_loc >= start_loc /\ new_pos >= end_loc
    \/ end_loc < start_loc /\ new_pos <= end_loc

\* a traveling step that is never clamped
ClampBlockOvershoot(m, start_loc, end_loc, new_pos) ==
    [train |-> check_restrictions(m.train), status |-> m.status, new_pos |-> new_pos]

\* clamp to destination, else apply restrictions mid-run
ClampBlock(m, start_loc, end_loc, new_pos) ==
    IF Clamped(start_loc, end_loc, new_pos)
    THEN [train |-> Put(m.train, "current_speed_limit", 0), status |-> "at_terminal",
          new_pos |-> end_loc]
    ELSE [train |-> check_restrictions(m.train), status |-> m.status, new_pos |-> new_pos]

\* time-based arrival safeguard
ArrivalBlock(m, end_loc, sim_t) ==
    IF GetOpt(m.train, "arr_time") # None /\ sim_t >= m.train["arr_time"][1]
    THEN [train |-> Put(m.train, "current_speed_limit", 0), status |-> "at_terminal",
          new_pos |-> end_loc]
    ELSE m

\* the traveling train m.train after check_restrictions
TravelStep(m, old_pos, start_loc, end_loc, sim_t) ==
    ArrivalBlock(ClampBlock(m, start_loc, end_loc,
                            IF end_loc >= start_loc THEN old_pos + StepLimit(m.train)
                            ELSE old_pos - StepLimit(m.train)),
                 end_loc, sim_t)

\* if status == "traveling"
TravelingBlock(m, old_pos, start_loc, end_loc, sim_t) ==
    IF m.status # "traveling" THEN m
    ELSE TravelStep([m EXCEPT !.train = check_restrictions(@)], old_pos, start_loc, end_loc,
                    sim_t)

\* if status == "at_terminal"
TerminalBlock(m, end_loc, sim_t) ==
    IF m.status # "at_terminal" THEN m
    ELSE [train |-> Put(m.train, "current_speed_limit", 0),
          status |-> IF GetOpt(m.train, "leave_time") # None
                        /\ sim_t >= m.train["leave_time"][1]
                     THEN "finished" ELSE "at_terminal",
          new_pos |-> end_loc]

\* train["status"] = status; train["current_location"] = new_pos
Settle(m) == Put(Put(m.train, "status", m.status), "current_location", m.new_pos)

\* train.get(key, old_pos) for start_loc and end_loc
LocOr(train, key, old_pos) == IF GetOpt(train, key) # None THEN train[key][1] ELSE old_pos

MoveFrom(train, old_pos, start_loc, end_loc, sim_t) ==
    Settle(TerminalBlock(
               TravelingBlock(
                   WaitingBlock([train |-> train, status |-> Get(train, "status", "waiting"),
                                 new_pos |-> old_pos], sim_t),
                   old_pos, start_loc, end_loc, sim_t),
               end_loc, sim_t))

\* the train with its new status, limit and location, before balise detection
MoveScheduled(train, sim_t) ==
    MoveFrom(train, Get(train, "current_location", 0),
             LocOr(train, "start_loc", Get(train, "current_location", 0)),
             LocOr(train, "end_loc", Get(train, "current_location", 0)), sim_t)

\* the end of the line for a manual train, lines 847-866
EndAction(train, limit_loc) ==
    IF Get(train, "end_action", 0) = 2
    THEN LET initial_speed == Get(train, "initial_speed", 0)
             new_base == IF initial_speed > 0 THEN initial_speed ELSE LineMaxSpeed
         IN  Put(Put(Put(Put(train, "current_location",
                             IF GetOpt(train, "start_loc") # None THEN train["start_loc"][1]
                             ELSE 0),
                         "base_speed", new_base), "current_speed_limit", new_base),
                 "active_restrictions", <<>>)
    ELSE Put(Put(Put(Put(train, "current_location", limit_loc), "current_speed_limit", 0),
                 "base_speed", 0), "active_restrictions", <<>>)

\* if train["current_location"] >= limit_loc: the end action
AtLimit(c, limit_loc) ==
    IF c.train["current_location"] >= limit_loc
    THEN [c EXCEPT !.train = EndAction(@, limit_loc)]
    ELSE c

\* balise detection for the train moved to its new place
Detect(moved, k, old_pos, bs, ts, pass_times, sim_t) ==
    CrossFrom([train |-> moved, pass_times |-> pass_times], k, old_pos,
              moved["current_location"], bs, ts, sim_t, 1)

\* the train that has risen by jump_v and lost 2 of it, landed when jump_h <= 0
Risen(train, jump_h) ==
    IF jump_h <= 0
    THEN Put(Put(Put(train, "jump_h", 0), "is_jumping", FALSE), "jump_v", 0)
    ELSE Put(Put(train, "jump_h", jump_h), "jump_v", train["jump_v"] - 2)

\* if train.get("is_jumping", False): the jump physics, lines 875-881
JumpPhysics(c) ==
    IF Get(c.train, "is_jumping", FALSE)
    THEN [c EXCEPT !.train = Risen(@, c.train["jump_h"] + c.train["jump_v"])]
    ELSE c

\* the manual branch, lines 830-881, for a train that moves
MoveManual(train, k, bs, ts, pass_times, sim_t) ==
    JumpPhysics(
        AtLimit(Detect(check_restrictions(
                           Put(train, "current_location",
                               train["current_location"]
                                   + Get(train, "current_speed_limit", 20))),
                       k, train["current_location"], bs, ts, pass_times, sim_t),
                IF GetOpt(train, "end_loc") # None THEN train["end_loc"][1]
                ELSE track_length(bs)))

\* the body of the loop of update_simulation for a train that has its
\* current_location
UpdateTrainAlways(train, k, bs, ts, pass_times, running, sim_t) ==
    IF Get(train, "schedule_managed", FALSE)
    THEN Detect(MoveScheduled(train, sim_t), k, train["current_location"], bs, ts,
                pass_times, sim_t)
    ELSE MoveManual(train, k, bs, ts, pass_times, sim_t)
UpdateTrain(train, k, bs, ts, pass_times, running, sim_t) ==
    IF Get(train, "schedule_managed", FALSE)
    THEN Detect(MoveScheduled(train, sim_t), k, train["current_location"], bs, ts,
                pass_times, sim_t)
    ELSE IF ~running THEN [train |-> train, pass_times |-> pass_times]
    ELSE MoveManual(train, k, bs, ts, pass_times, sim_t)

\* if "current_location" not in train: train["current_location"] = 0.0
Located(train) ==
    IF "current_location" \in DOMAIN train THEN train ELSE Put(train, "current_location", 0)

\* the roster and the pass times once the train at index k has been handled
Merge(ts, k, c) == [trains |-> [ts EXCEPT ![k] = c.train], pass_times |-> c.pass_times]

RECURSIVE UpdateFrom(_, _, _, _, _)
\* for train in self.trains: ..., from index k on; u holds the roster and the
\* pass times as they are by then
UpdateFrom(k, bs, u, running, sim_t) ==
    IF k > Len(u.trains) THEN u
    ELSE UpdateFrom(k + 1, bs,
                    Merge(u.trains, k,
                          UpdateTrain(Located(u.trains[k]), k, bs, u.trains, u.pass_times,
                                      running, sim_t)),
                    running, sim_t)

-----------------------------------------------------------------------------
(* Timetable trains.  A runtime entry is the timetable entry plus created,   *)
(* removed and train_ref; train_ref is the position of the entry's train in  *)
(* self.trains, which is how the model names the object the code refers to.  *)

\* entry.get("arr_start") or entry.get("dep_start") or entry.get("arr_end") or
\* entry.get("leave_end")
TriggerTime(entry) ==
    OrElse(GetOpt(entry, "arr_start"),
           OrElse(GetOpt(entry, "dep_start"),
                  OrElse(GetOpt(entry, "arr_end"), GetOpt(entry, "leave_end"))))

\* entry.get("leave_end") or entry.get("arr_end")
LeaveTime(entry) == OrElse(GetOpt(entry, "leave_end"), GetOpt(entry, "arr_end"))

\* _get_train_template(name): a copy of the first template of that name, or None
get_train_template(templates, name) ==
    IF \E i \in 1..Len(templates) : Get(templates[i], "name", <<>>) = name
    THEN Some(templates[CHOOSE i \in 1..Len(templates) :
                  /\ Get(templates[i], "name", <<>>) = name
                  /\ \A j \in 1..(i - 1) : Get(templates[j], "name", <<>>) # name])
    ELSE None

\* the place of a train created while its run is in progress, lines 606-612;
\* the timetables of the model make the quotient exact
ProportionalPlace(entry, sim_t) ==
    LET dep == GetOpt(entry, "dep_start")
        arr == GetOpt(entry, "arr_end")
    IN  IF dep # None /\ arr # None /\ arr[1] > dep[1] /\ sim_t > dep[1]
        THEN LET elapsed == Min2(sim_t - dep[1], arr[1] - dep[1])
             IN  entry["start_loc"]
                 + ((entry["end_loc"] - entry["start_loc"]) * elapsed) \div (arr[1] - dep[1])
        ELSE entry["start_loc"]

\* the train _create_schedule_train appends to self.trains
create_schedule_train(entry, templates, sim_t) ==
    LET template == get_train_template(templates, entry["train_name"])
        train == IF template # None THEN template[1] ELSE <<>>
        base_speed == IF "initial_speed" \in DOMAIN train THEN train["initial_speed"]
                      ELSE LineMaxSpeed
        restrs == Get(train, "active_restrictions", <<>>)
    IN  M1(train,
           [k \in {"name", "start_station", "end_station", "current_location",
                   "current_speed_limit", "active_restrictions", "base_speed",
                   "schedule_managed", "status", "start_loc", "end_loc", "dep_time",
                   "arr_time", "leave_time"} |->
              CASE k = "name" -> entry["train_name"]
                [] k = "start_station" -> entry["start_station"]
                [] k = "end_station" -> entry["end_station"]
                [] k = "current_location" -> ProportionalPlace(entry, sim_t)
                [] k = "current_speed_limit" -> 0
                [] k = "active_restrictions" -> restrs
                [] k = "base_speed" -> base_speed
                [] k = "schedule_managed" -> TRUE
                [] k = "status" -> "waiting"
                [] k = "start_loc" -> Some(entry["start_loc"])
                [] k = "end_loc" -> Some(entry["end_loc"])
                [] k = "dep_time" -> GetOpt(entry, "dep_start")
                [] k = "arr_time" -> GetOpt(entry, "arr_end")
                [] k = "leave_time" -> GetOpt(entry, "leave_end")])

\* leave_time and self.current_sim_time >= leave_time
Left(entry, now) == LeaveTime(entry) # None /\ now >= LeaveTime(entry)[1]

\* the entry is due: not created, not removed, not left, trigger reached
ShouldCreateAgain(entry, now) ==
    /\ ~entry["removed"]
    /\ ~Left(entry, now)
    /\ TriggerTime(entry) # None /\ now >= TriggerTime(entry)[1]
ShouldCreate(entry, now) ==
    /\ ~entry["created"] /\ ~entry["removed"]
    /\ ~Left(entry, now)
    /\ TriggerTime(entry) # None /\ now >= TriggerTime(entry)[1]

RECURSIVE CreateFrom(_, _, _, _)
\* the first loop of _update_schedule_trains, from entry i on; c holds the
\* runtime entries and the roster as they are by then
CreateFrom(i, c, templates, now) ==
    IF i > Len(c.runtime) THEN c
    ELSE CreateFrom(i + 1,
             IF ShouldCreate(c.runtime[i], now)
             THEN [runtime |-> [c.runtime EXCEPT ![i] =
                                   Put(Put(@, "created", TRUE),
                                       "train_ref", Some(Len(c.trains) + 1))],
                   trains |-> Append(c.trains,
                                     create_schedule_train(c.runtime[i], templates, now))]
             ELSE IF /\ ~c.runtime[i]["created"] /\ ~c.runtime[i]["removed"]
                     /\ Left(c.runtime[i], now)
             THEN [c EXCEPT !.runtime[i] = Put(@, "removed", TRUE)]
             ELSE c,
             templates, now)

\* the entries the second loop of _update_schedule_trains ends
Ending(runtime, now) ==
    {i \in 1..Len(runtime) :
        runtime[i]["created"] /\ ~runtime[i]["removed"] /\ Left(runtime[i], now)}

\* the trains the ending entries refer to
ToRemove(runtime, ts, ending) ==
    {ts[runtime[i]["train_ref"][1]] : i \in {j \in ending : runtime[j]["train_ref"] # None}}

\* the positions of the trains that [t for t in self.trains if t not in to_remove]
\* drops: every train equal to one that an ending entry refers to
Dropped(ts, to_remove) == {k \in 1..Len(ts) : ts[k] \in to_remove}

RECURSIVE Without(_, _, _)
\* ts without the positions in dropped, order kept
Without(ts, dropped, k) ==
    IF k > Len(ts) THEN <<>>
    ELSE IF k \in dropped THEN Without(ts, dropped, k + 1)
    ELSE <<ts[k]>> \o Without(ts, dropped, k + 1)

\* where the train at position k is once the positions in dropped are gone
NewPosition(k, dropped) == k - Cardinality({d \in dropped : d < k})

\* the runtime entry e after the removal loop; an ended entry's reference is
\* never read again and is dropped here
AfterRemoval(e, ended, dropped) ==
    IF ended THEN Put(Put(e, "removed", TRUE), "train_ref", None)
    ELSE IF e["train_ref"] # None /\ e["train_ref"][1] \notin dropped
    THEN Put(e, "train_ref", Some(NewPosition(e["train_ref"][1], dropped)))
    ELSE e

Drop(c, ending, dropped) ==
    [runtime |-> [i \in 1..Len(c.runtime) |->
                     AfterRemoval(c.runtime[i], i \in ending, dropped)],
     trains |-> Without(c.trains, dropped, 1)]

DropEnding(c, ending) ==
    Drop(c, ending, Dropped(c.trains, ToRemove(c.runtime, c.trains, ending)))

\* the second loop of _update_schedule_trains and the filter of the roster
RemoveEnded(c, now) == DropEnding(c, Ending(c.runtime, now))

\* _update_schedule_trains on the runtime entries and roster held by c
UpdateSchedule(c, templates, now) ==
    IF c.runtime = <<>> THEN c
    ELSE RemoveEnded(CreateFrom(1, c, templates, now), now)

update_schedule_trains(runtime0, ts0, templates, now) ==
    UpdateSchedule([runtime |-> runtime0, trains |-> ts0], templates, now)

\* a reset that leaves the timetable trains in the roster
reset_schedule_state_KeepsTrains(entries, ts, cutoff) ==
    [runtime |->
        [i \in 1..Len(entries) |->
            M1(entries[i],
               [k \in {"created", "removed", "train_ref"} |->
                  CASE k = "created" -> FALSE
                    [] k = "removed" -> LeaveTime(entries[i]) # None
                                        /\ LeaveTime(entries[i])[1] < cutoff
                    [] k = "train_ref" -> None])],
     trains |-> ts]

\* _reset_schedule_state(start_time=cutoff): the runtime entries and the roster
reset_schedule_state(entries, ts, cutoff) ==
    [runtime |->
        [i \in 1..Len(entries) |->
            M1(entries[i],
               [k \in {"created", "removed", "train_ref"} |->
                  CASE k = "created" -> FALSE
                    [] k = "removed" -> LeaveTime(entries[i]) # None
                                        /\ LeaveTime(entries[i])[1] < cutoff
                    [] k = "train_ref" -> None])],
     trains |-> SelectSeq(ts, LAMBDA t : ~Get(t, "schedule_managed", FALSE))]

-----------------------------------------------------------------------------
(* The simulation as a state machine: the main window holds the balise roster *)
(* and the configured trains, the widget its copies, the running trains, the  *)
(* pass-time map, the clock, the run flag and the timetable runtime.  The two *)
(* timers always run; the buttons, the dialogs and the file watcher come in   *)
(* between their ticks.                                                      *)

\* the simulation is followed up to this second of the clock
SimEnd == 6

\* balise files: an exit balise with stop and speed profile, a temporary speed
\* restriction in mid line, a speed profile in mid line before an exit balise
ExitRoster ==
    <<MkSimBalise(<<<<"S", "C", "Z">>, 1>>,
                  ("CTCS-5" :> StopTelegram) @@ ("ETCS-27" :> SspTelegram))>>
TsrRoster == <<MkSimBalise(<<<<"M", "1">>, 5>>, ("CTCS-2" :> TsrTelegram))>>
SspRoster ==
    <<MkSimBalise(<<<<"M", "1">>, 5>>, ("ETCS-27" :> SspTelegram)),
      MkSimBalise(<<<<"T", "C", "Z">>, 9>>, ("CTCS-5" :> StopTelegram))>>

\* a train of the train configuration file
ConfigTrain(name, s_station, e_station, initial_speed, end_action) ==
    [k \in {"name", "start_station", "end_station", "initial_speed", "end_action"} |->
        CASE k = "name" -> name
          [] k = "start_station" -> s_station
          [] k = "end_station" -> e_station
          [] k = "initial_speed" -> initial_speed
          [] k = "end_action" -> end_action]

\* a timetable entry as load_schedule_entries builds it: dep_start falls back
\* to arr_start and leave_end to arr_end
ScheduleEntry(name, s_station, e_station, arr_start, dep_start, arr_end, leave_end) ==
    [k \in {"train_name", "start_station", "end_station", "start_loc", "end_loc",
            "arr_start", "dep_start", "arr_end", "leave_end"} |->
        CASE k = "train_name" -> name
          [] k = "start_station" -> s_station
          [] k = "end_station" -> e_station
          [] k = "start_loc" -> station_location(s_station)[1]
          [] k = "end_loc" -> station_location(e_station)[1]
          [] k = "arr_start" -> arr_start
          [] k = "dep_start" -> OrElse(dep_start, arr_start)
          [] k = "arr_end" -> arr_end
          [] k = "leave_end" -> OrElse(leave_end, arr_end)]

\* the installations of the model: the balise file, the configured trains
\* (one that stops at the end of its line, one that restarts) and the
\* timetable (a run of a train without configuration, a run of a configured one)
SimWorlds ==
    {[roster |-> SspRoster,
      trains |-> <<ConfigTrain(<<"G", "1">>, <<"S">>, <<"T">>, 3, 0)>>,
      timetable |-> <<ScheduleEntry(<<"D", "1">>, <<"S">>, <<"T">>,
                                    Some(1), Some(2), Some(4), Some(5))>>],
     [roster |-> TsrRoster,
      trains |-> <<ConfigTrain(<<"G", "2">>, <<"S">>, <<"T">>, 4, 2)>>,
      timetable |-> <<ScheduleEntry(<<"G", "2">>, <<"T">>, <<"S">>,
                                    None, Some(3), Some(5), None)>>],
     [roster |-> ExitRoster,
      trains |-> <<ConfigTrain(<<"G", "1">>, <<"S">>, <<"T">>, 3, 0)>>,
      timetable |-> <<>>]}

\* train["is_jumping"] = False; train["jump_h"] = 0.0; train["jump_v"] = 0.0
JumpReset(train) == Put(Put(Put(train, "is_jumping", FALSE), "jump_h", 0), "jump_v", 0)

\* self.trains = copy.deepcopy(trains), each with active_restrictions = [], then
\* reset_train_positions
FreshTrains(config_trains, bs) ==
    reset_train_positions([k \in 1..Len(config_trains) |->
                              JumpReset(Put(config_trains[k], "active_restrictions", <<>>))],
                          bs)

Clocked(c, clock) == [trains |-> c.trains, runtime |-> c.runtime, clock |-> clock]

\* set_config(..., preserve_state=False): the widget's state afterwards; old_t
\* is the clock before the call and now the wall clock during it
SetConfigFresh(bs, config_trains, entries, runtime, old_t, now) ==
    IF entries # <<>>
    THEN Clocked(UpdateSchedule(reset_schedule_state(entries, FreshTrains(config_trains, bs),
                                                     old_t),
                                config_trains, now), now)
    ELSE [trains |-> FreshTrains(config_trains, bs), runtime |-> runtime, clock |-> old_t]

\* the widget after the first set_config
Loaded(s) == trains = s.trains /\ schedule_runtime = s.runtime

InitSim ==
    /\ CodecIdle /\ FieldIdle
    /\ roster0 = <<>> /\ runs = 0 /\ sim_set = TRUE
    /\ \E w \in SimWorlds :
          /\ cfg_balises = process_balise_groups(w.roster)
          /\ train_templates = w.trains
          /\ schedule_entries = w.timetable
    /\ balises = process_balise_ids(cfg_balises)
    /\ current_sim_time = 0
    /\ is_running = FALSE
    /\ balise_pass_times = NoDict
    /\ Loaded(SetConfigFresh(cfg_balises, train_templates, schedule_entries, <<>>, 0, 0))

\* the Start button
StartSimulation ==
    /\ is_running' = TRUE
    /\ UNCHANGED <<codecVars, fieldVars, groupVars, balises, authVars, schedule_runtime,
                   schedule_entries, train_templates>>

\* the Pause button
PauseSimulation ==
    /\ is_running' = FALSE
    /\ UNCHANGED <<codecVars, fieldVars, groupVars, balises, authVars, schedule_runtime,
                   schedule_entries, train_templates>>

\* the Stop button
StopSimulation ==
    /\ is_running' = FALSE
    /\ trains' = reset_train_positions(trains, balises)
    /\ balise_pass_times' = NoDict
    /\ UNCHANGED <<codecVars, fieldVars, groupVars, balises, current_sim_time,
                   schedule_runtime, schedule_entries, train_templates>>

\* the roster and the pass times after the loop of update_simulation
Ticked(u) ==
    /\ \A k \in 1..Len(u.trains) :
          Len(Get(u.trains[k], "active_restrictions", <<>>)) <= MaxRestr
    /\ trains' = u.trains
    /\ balise_pass_times' = u.pass_times
    /\ UNCHANGED <<codecVars, fieldVars, groupVars, balises, current_sim_time, simVars>>

\* the 16 ms timer: update_simulation
UpdateSimulation ==
    Ticked(UpdateFrom(1, balises, [trains |-> trains, pass_times |-> balise_pass_times],
                      is_running, current_sim_time))

\* the clock, the runtime entries and the roster after tick_sim_time
ClockRead(now, c) ==
    /\ now <= SimEnd
    /\ current_sim_time' = now
    /\ schedule_runtime' = c.runtime
    /\ trains' = c.trains
    /\ UNCHANGED <<codecVars, fieldVars, groupVars, balises, balise_pass_times,
                   is_running, schedule_entries, train_templates>>

\* _maybe_reload_schedule: the timetable is reset when its file was touched
MaybeReload(changed, now) ==
    IF changed THEN reset_schedule_state(schedule_entries, trains, now)
    ELSE [runtime |-> schedule_runtime, trains |-> trains]

\* the 1000 ms timer: tick_sim_time, d seconds after the clock's last reading;
\* changed tells whether the timetable file was touched meanwhile
TickSimTime ==
    \E d \in 1..2 : \E changed \in BOOLEAN :
        ClockRead(current_sim_time + d,
                  UpdateSchedule(MaybeReload(changed, current_sim_time + d), train_templates,
                                 current_sim_time + d))

\* a sequence without its element i
Remove(s, i) == [k \in 1..(Len(s) - 1) |-> IF k < i THEN s[k] ELSE s[k + 1]]

\* delete_balise(index): the roster is saved and handed to the widget with
\* preserve_state=True
DeleteBalise(i) ==
    /\ i \in 1..Len(cfg_balises)
    /\ cfg_balises' = process_balise_groups(Remove(cfg_balises, i))
    /\ balises' = process_balise_ids(cfg_balises')
    /\ UNCHANGED <<codecVars, fieldVars, roster0, runs, sim_set, authVars, simVars>>

\* on_balise_file_changed: the balise file was rewritten outside the program,
\* to the file with the one balise in mid line
OnBaliseFileChanged ==
    /\ cfg_balises' = process_balise_groups(TsrRoster)
    /\ balises' = process_balise_ids(cfg_balises')
    /\ UNCHANGED <<codecVars, fieldVars, roster0, runs, sim_set, authVars, simVars>>

\* the widget after set_config with preserve_state=False
Reloaded(s) ==
    /\ s.clock <= SimEnd
    /\ balises' = process_balise_ids(cfg_balises)
    /\ balise_pass_times' = NoDict
    /\ trains' = s.trains
    /\ schedule_runtime' = s.runtime
    /\ current_sim_time' = s.clock
    /\ UNCHANGED <<codecVars, fieldVars, groupVars, is_running, schedule_entries,
                   train_templates>>

\* a station, train or line dialog is accepted: set_config with
\* preserve_state=False, d seconds after the clock's last reading
ReloadConfig ==
    \E d \in 0..1 :
        Reloaded(SetConfigFresh(cfg_balises, train_templates, schedule_entries,
                                schedule_runtime, current_sim_time, current_sim_time + d))

NextSim ==
    \/ StartSimulation
    \/ PauseSimulation
    \/ StopSimulation
    \/ UpdateSimulation
    \/ TickSimTime
    \/ \E i \in 1..MaxBalises : DeleteBalise(i)
    \/ OnBaliseFileChanged
    \/ ReloadConfig

SpecSim == InitSim /\ [][NextSim]_vars

SimTypeOK == \A k \in 1..Len(trains) : Get(trains[k], "current_location", 0) \in 0..25

-----------------------------------------------------------------------------
(* Timetable trains follow the clock. *)

\* the positions in the roster of the trains made for runtime entry i
EntryTrains(ts, runtime, i) ==
    {k \in 1..Len(ts) :
        /\ Get(ts[k], "schedule_managed", FALSE)
        /\ Get(ts[k], "name", <<>>) = runtime[i]["train_name"]}

\* the trigger time of the entry has been reached
Triggered(entry, now) == TriggerTime(entry) # None /\ now >= TriggerTime(entry)[1]

-----------------------------------------------------------------------------
(* The derived speed limit against the base speed. *)

\* C15: in every reachable state every train's current_speed_limit is at most
\* its base_speed.
C15_LimitWithinBase ==
    \A k \in 1..Len(trains) :
        Get(trains[k], "current_speed_limit", 0) <= Get(trains[k], "base_speed", 0)

-----------------------------------------------------------------------------
(* The run flag. *)

IsManual(train) == ~Get(train, "schedule_managed", FALSE)

\* what the run flag governs of a manual train
ManualState(train) ==
    <<Get(train, "current_location", 0), GetOpt(train, "current_speed_limit"),
      GetOpt(train, "base_speed"), Get(train, "active_restrictions", <<>>)>>

\* balise i lies on the way the train made in the step from before to after
OnTheWay(bs, i, before, after) ==
    LET b_loc == Get(bs[i], "location", 0)
        old_pos == Get(before, "current_location", 0)
        new_pos == Get(after, "current_location", 0)
    IN  Min2(old_pos, new_pos) <= b_loc /\ b_loc <= Max2(old_pos, new_pos)

\* the timetable train is due to move: it waits past its departure time, or it
\* travels with a positive base speed
DueToMove(train, now) ==
    \/ /\ Get(train, "status", "waiting") = "waiting"
       /\ GetOpt(train, "dep_time") # None /\ now >= train["dep_time"][1]
       /\ Get(train, "base_speed", 0) > 0
    \/ /\ Get(train, "status", "waiting") = "traveling"
       /\ Get(train, "base_speed", 0) > 0

\* C16: a fine tick taken while the run flag is false leaves the location,
\* speed limit, base speed and restrictions of every manual train as they
\* were, and every pass time it records is that of a balise on the way of a
\* timetable train; a timetable train that is due to move moves or reaches its
\* terminal in that tick.  pause_simulation changes the run flag and nothing
\* else.
C16_PausedTick ==
    /\ [][(UpdateSimulation /\ ~is_running) =>
            /\ Len(trains') = Len(trains)
            /\ \A k \in 1..Len(trains) :
                  IsManual(trains[k]) => ManualState(trains'[k]) = ManualState(trains[k])
            /\ \A i \in DOMAIN balise_pass_times' :
                  (i \notin DOMAIN balise_pass_times
                   \/ balise_pass_times'[i] # balise_pass_times[i]) =>
                      \E k \in 1..Len(trains) :
                          ~IsManual(trains[k]) /\ OnTheWay(balises, i, trains[k], trains'[k])
            /\ \A k \in 1..Len(trains) :
                  (~IsManual(trains[k]) /\ DueToMove(trains[k], current_sim_time)) =>
                      \/ trains'[k]["status"] = "at_terminal"
                      \/ /\ trains'[k]["status"] = "traveling"
                         /\ trains'[k]["current_location"] # trains[k]["current_location"]]_vars
    /\ [][PauseSimulation =>
            /\ ~is_running'
            /\ UNCHANGED <<trains, balise_pass_times, current_sim_time, balises,
                           cfg_balises, schedule_runtime, schedule_entries,
                           train_templates>>]_vars

\* the simulation is not running, a manual train stands between its start and
\* its end where it was when the flag fell, and a timetable train is on its way
C16_Witness ==
    /\ ~is_running
    /\ \E k \in 1..Len(trains) :
          /\ IsManual(trains[k])
          /\ trains[k]["current_location"] > trains[k]["start_loc"][1]
          /\ trains[k]["current_location"] < trains[k]["end_loc"][1]
    /\ \E k \in 1..Len(trains) :
          /\ ~IsManual(trains[k])
          /\ trains[k]["status"] = "traveling"
          /\ trains[k]["current_location"] # trains[k]["start_loc"][1]

-----------------------------------------------------------------------------
(* Stop. *)

\* what stop_simulation leaves alone of a timetable train
ScheduledState(train) ==
    <<Get(train, "current_location", 0), GetOpt(train, "status"),
      GetOpt(train, "current_speed_limit"), GetOpt(train, "base_speed")>>

-----------------------------------------------------------------------------
(* The pass-time map and the balise roster. *)

\* C18: the pass-time map is empty after every set_config call, those made
\* after a balise is deleted or after the balise file changed included, and
\* after every stop.
C18_PassTimesCleared ==
    [][((\E i \in 1..MaxBalises : DeleteBalise(i)) \/ OnBaliseFileChanged
        \/ ReloadConfig \/ StopSimulation) => balise_pass_times' = NoDict]_vars

\* the part of C18 that holds: the map is empty after a set_config call that
\* does not preserve the state, and after a stop
C18_ClearedOnFreshConfig ==
    [][(ReloadConfig \/ StopSimulation) => balise_pass_times' = NoDict]_vars

-----------------------------------------------------------------------------
(* n_pig on its own: rosters whose records carry small and large sub_ids go   *)
(* through process_balise_groups once; the balise dialog derives n_pig from   *)
(* the same sub_id when the record is edited.                                 *)

\* sub_id cells: absent, 0, 7, 8, 12 and a non-numeric one
PigSubIds == {Absent, <<"0">>, <<"7">>, <<"8">>, <<"1", "2">>, <<"x">>}

\* a blank father cell and father A
PigFathers == {<<" ">>, <<"A">>}

\* str.zfill(width) of a string without sign
ZFill(s, width) == Zeros(IF width > Len(s) THEN width - Len(s) ELSE 0) \o s

\* bin(sid)[2:].zfill(3)[-3:] for sid >= 0
DialogNPig(sid) == LastChars(ZFill(BinDigits(sid), 3), 3)

InitPig ==
    /\ \E n \in 1..NLow : \E c \in [1..n -> PigFathers \X PigSubIds] :
            roster0 = MkRoster(n, c)
    /\ cfg_balises = roster0
    /\ runs = 0
    /\ balises = <<>>
    /\ sim_set = FALSE
    /\ CodecIdle /\ AuthIdle /\ FieldIdle /\ SimIdle

\* ConfigManager.process_balise_groups(self.balises)
NormalisePig ==
    /\ runs = 0
    /\ cfg_balises' = process_balise_groups(cfg_balises)
    /\ runs' = 1
    /\ UNCHANGED <<codecVars, fieldVars, simVars, authVars, roster0, balises, sim_set>>

NextPig == NormalisePig

SpecPig == InitPig /\ [][NextPig]_vars

\* C21: after the assigner has run, every record's n_pig is three characters
\* '0'/'1'; when the sub_id is numeric it is the sub_id mod 8 in binary and the
\* n_pig the dialog derives from that sub_id, and it is '000' otherwise.
C21_NPigThreeBits ==
    runs = 1 =>
        \A i \in 1..Len(cfg_balises) :
            LET b == cfg_balises[i]
            IN  /\ Len(b["n_pig"]) = 3
                /\ \A j \in 1..Len(b["n_pig"]) : b["n_pig"][j] \in {"0", "1"}
                /\ IF IsDigit(Sid(b))
                   THEN /\ BinValue(b["n_pig"]) = IntOf(Sid(b)) % 8
                        /\ b["n_pig"] = DialogNPig(IntOf(Sid(b)))
                   ELSE b["n_pig"] = <<"0", "0", "0">>


-----------------------------------------------------------------------------
(* decode_packet on telegrams of any length: whole telegrams, telegrams with  *)
(* bits left over, and telegrams cut at every position.                       *)

ExtraBits == 2

Ones(n) == [i \in 1..n |-> "1"]

\* sum of the widths of every field of the schema, conditional ones included
RECURSIVE SchemaWidth(_, _)
SchemaWidth(defs, i) == IF i > Len(defs) THEN 0 ELSE defs[i].len + SchemaWidth(defs, i + 1)

\* the fields a presence condition of p reads
CondFields(p) ==
    {PACKET_DEFS[p][i].cond.field :
        i \in {j \in 1..Len(PACKET_DEFS[p]) : PACKET_DEFS[p][j].cond.kind = "eq"}}

\* bit strings a telegram of type p is cut from: all zeros, all ones, and the
\* encoder's output with one condition-controlling field set to 1, each longer
\* than the schema by ExtraBits
CutSources(p) ==
    {Zeros(SchemaWidth(PACKET_DEFS[p], 1) + ExtraBits),
     Ones(SchemaWidth(PACKET_DEFS[p], 1) + ExtraBits)}
    \cup {encode_packet(p, [n \in {f} |-> 1]) \o Ones(ExtraBits) : f \in CondFields(p)}

InitCut ==
    /\ packet_name \in DOMAIN PACKET_DEFS
    /\ data = NoDict
    /\ \E src \in CutSources(packet_name) : \E n \in 0..Len(src) :
           bin_str = SubSeq(src, 1, n)
    /\ result = NoDict
    /\ cpc = "encoded"
    /\ GroupIdle /\ AuthIdle /\ FieldIdle /\ SimIdle /\ balises = <<>>

NextCut == Decode

SpecCut == InitCut /\ [][NextCut]_vars

\* field i of the schema is present under the fields returned in res
Present(defs, i, res) == CondHolds(defs[i].cond, res)

\* the bit offset of field i: the widths of the present fields before it
RECURSIVE RunOffset(_, _, _)
RunOffset(defs, i, res) ==
    IF i <= 1 THEN 0
    ELSE RunOffset(defs, i - 1, res)
            + (IF Present(defs, i - 1, res) THEN defs[i - 1].len ELSE 0)

\* res is the run of the present fields among the first k of the schema, each
\* read from its full width, and field k + 1, if any, is present and does not fit
IsInitialRun(defs, k, s, res) ==
    /\ DOMAIN res = {defs[i].name : i \in {j \in 1..k : Present(defs, j, res)}}
    /\ \A i \in 1..k : Present(defs, i, res) =>
           /\ RunOffset(defs, i, res) + defs[i].len <= Len(s)
           /\ res[defs[i].name] =
                  BinValue(SubSeq(s, RunOffset(defs, i, res) + 1,
                                  RunOffset(defs, i, res) + defs[i].len))
    /\ k < Len(defs) =>
           /\ Present(defs, k + 1, res)
           /\ RunOffset(defs, k + 1, res) + defs[k + 1].len > Len(s)

(* C22: for every known packet type and every '0'/'1' string, the empty one   *)
(* and those cut inside a field included, decode_packet returns a mapping     *)
(* whose keys are an initial run, in schema order, of the fields present      *)
(* under the fields decoded so far; each returned field is read from its full *)
(* width of consecutive bits, and nothing after the first field that does not *)
(* fit is returned.                                                           *)
C22_InitialRun ==
    cpc = "decoded" =>
        \E k \in 0..Len(PACKET_DEFS[packet_name]) :
            IsInitialRun(PACKET_DEFS[packet_name], k, bin_str, result)

\* an ETCS-41 telegram with the conditional NID_STM present, cut inside the
\* 15-bit L_ACKLEVELTR while the 5-bit N_ITER after it would still fit
C22_Witness ==
    /\ cpc = "decoded"
    /\ packet_name = "ETCS-41"
    /\ DOMAIN result = {"NID_PACKET", "Q_DIR", "Q_SCALE", "D_LEVELTR", "M_LEVELTR",
                        "NID_STM"}
    /\ result["M_LEVELTR"] = 1
    /\ Len(bin_str) >= RunOffset(PACKET_DEFS["ETCS-41"], 7, result) + 5
    /\ Len(bin_str) < RunOffset(PACKET_DEFS["ETCS-41"], 7, result) + 15

-----------------------------------------------------------------------------
(* translate_to_cn and translate_to_var: the keys of a field mapping are       *)
(* replaced by descriptions and back.                                          *)

\* HEADER_MAP: header field name -> description (the Chinese descriptions are
\* written as English glosses, distinct descriptions getting distinct glosses)
HEADER_MAP ==
    [q_updown |-> "transmission_direction",
     m_version |-> "code_version",
     q_media |-> "transmission_medium",
     n_pig |-> "position_in_group",
     n_total |-> "total_in_group",
     m_dup |-> "duplicate_marker",
     m_mcount |-> "telegram_counter",
     nid_c |-> "region_number",
     nid_bg |-> "balise_identity_number",
     q_link |-> "link_state"]

\* the "desc" of each schema field, in schema order
FieldDescs ==
    [p \in DOMAIN PACKET_DEFS |->
     CASE p = "ETCS-5" ->
            <<"packet_identifier", "validity_direction",
              "distance_resolution", "link_distance", "region_relation",
              "region_number", "balise_group_number", "running_direction",
              "link_failure_reaction", "installation_accuracy",
              "number_of_linked_groups">>
       [] p = "CTCS-1" ->
            <<"CTCS_packet_identifier", "validity_direction",
              "distance_resolution", "signal_type", "carrier_frequency",
              "section_start_distance", "section_length",
              "number_of_sections">>
       [] p = "ETCS-21" ->
            <<"packet_identifier", "validity_direction",
              "distance_resolution", "gradient_start_distance",
              "gradient_direction", "safe_gradient",
              "number_of_gradient_changes">>
       [] p = "ETCS-27" ->
            <<"packet_identifier", "validity_direction",
              "distance_resolution", "speed_start_distance",
              "maximum_permitted_speed", "front_or_rear_validity",
              "train_category", "train_category_speed",
              "number_of_speed_changes">>
       [] p = "ETCS-41" ->
            <<"packet_identifier", "validity_direction",
              "distance_resolution", "transition_distance",
              "ETCS_transition_level", "non-ETCS_transition_level",
              "acknowledgement_length", "number_of_transitions">>
       [] p = "CTCS-2" ->
            <<"CTCS_packet_identifier", "validity_direction",
              "distance_resolution", "restricted_speed",
              "restriction_distance", "restriction_length",
              "valid_section_length", "number_of_restrictions">>
       [] p = "CTCS-4" ->
            <<"CTCS_packet_identifier", "validity_direction",
              "distance_resolution", "turnout_distance",
              "maximum_diverging_speed">>
       [] p = "CTCS-5" ->
            <<"CTCS_packet_identifier", "validity_direction",
              "stop_command">>
       [] p = "ETCS-68" ->
            <<"packet_identifier", "validity_direction",
              "distance_resolution", "resume_requirement",
              "resume_point_distance", "special_section_type",
              "special_section_distance", "special_section_length",
              "number_of_sections">>
       [] p = "ETCS-79" ->
            <<"packet_identifier", "validity_direction",
              "distance_resolution", "region_relation", "region_number",
              "line_kilometre_post", "counting_direction", "offset",
              "number_of_kilometre_posts">>]

\* str.lower on the spellings that are not lower case already
LowerPairs ==
    {<<"D_GRADIENT", "d_gradient">>, <<"D_LEVELTR", "d_leveltr">>, <<"D_LINK",
     "d_link">>, <<"D_POSOFF", "d_posoff">>, <<"D_SIGNAL", "d_signal">>,
     <<"D_STATIC", "d_static">>, <<"D_TRACKCOND", "d_trackcond">>,
     <<"D_TRACKINIT", "d_trackinit">>, <<"D_TSR", "d_tsr">>, <<"D_TURNOUT",
     "d_turnout">>, <<"G_A", "g_a">>, <<"L_ACKLEVELTR", "l_ackleveltr">>,
     <<"L_SECTION", "l_section">>, <<"L_TRACKCOND", "l_trackcond">>,
     <<"L_TSR", "l_tsr">>, <<"L_TSRarea", "l_tsrarea">>, <<"M_DUP", "m_dup">>,
     <<"M_LEVELTR", "m_leveltr">>, <<"M_MCOUNT", "m_mcount">>, <<"M_POSITION",
     "m_position">>, <<"M_TRACKCOND", "m_trackcond">>, <<"M_VERSION",
     "m_version">>, <<"M_dup", "m_dup">>, <<"M_mcount", "m_mcount">>,
     <<"M_version", "m_version">>, <<"NC_DIFF", "nc_diff">>, <<"NID_BG",
     "nid_bg">>, <<"NID_C", "nid_c">>, <<"NID_FREQUENCY", "nid_frequency">>,
     <<"NID_PACKET", "nid_packet">>, <<"NID_SIGNAL", "nid_signal">>,
     <<"NID_STM", "nid_stm">>, <<"NID_XUSER", "nid_xuser">>, <<"N_ITER",
     "n_iter">>, <<"N_PIG", "n_pig">>, <<"N_TOTAL", "n_total">>, <<"N_pig",
     "n_pig">>, <<"N_total", "n_total">>, <<"Nid_bg", "nid_bg">>, <<"Nid_c",
     "nid_c">>, <<"Q_DIR", "q_dir">>, <<"Q_FRONT", "q_front">>, <<"Q_GDIR",
     "q_gdir">>, <<"Q_LINK", "q_link">>, <<"Q_LINKORIENTATION",
     "q_linkorientation">>, <<"Q_LINKREACTION", "q_linkreaction">>,
     <<"Q_LOCACC", "q_locacc">>, <<"Q_MEDIA", "q_media">>, <<"Q_MPOSITION",
     "q_mposition">>, <<"Q_NEWCOUNTRY", "q_newcountry">>, <<"Q_SCALE",
     "q_scale">>, <<"Q_STOP", "q_stop">>, <<"Q_TRACKINIT", "q_trackinit">>,
     <<"Q_UPDOWN", "q_updown">>, <<"Q_link", "q_link">>, <<"Q_media",
     "q_media">>, <<"Q_updown", "q_updown">>, <<"V_DIFF", "v_diff">>,
     <<"V_STATIC", "v_static">>, <<"V_TSR", "v_tsr">>, <<"V_TURNOUT",
     "v_turnout">>}

\* var_name.lower()
Lower(k) == IF \E pr \in LowerPairs : pr[1] = k
            THEN (CHOOSE pr \in LowerPairs : pr[1] = k)[2] ELSE k

\* get_cn_name: the desc of the first schema field of that name, else the header
\* description of the lower-cased name, else the name itself
get_cn_name(var_name, p) ==
    IF p \in DOMAIN PACKET_DEFS /\ var_name \in FieldNames(p)
    THEN FieldDescs[p][CHOOSE i \in 1..Len(PACKET_DEFS[p]) :
                          PACKET_DEFS[p][i].name = var_name]
    ELSE IF Lower(var_name) \in DOMAIN HEADER_MAP THEN HEADER_MAP[Lower(var_name)]
    ELSE var_name

\* a dict built by writing the items of d in order under the renamed keys: of
\* two keys renamed alike, the later one's value stays
RECURSIVE Renamed(_, _, _, _)
Renamed(keys, d, rename(_), acc) ==
    IF keys = <<>> THEN acc
    ELSE Renamed(Tail(keys), d, rename,
                 M1(acc, [k \in {rename(Head(keys))} |-> d[Head(keys)]]))

translate_to_cn(d, p, order) ==
    LET cn(k) == get_cn_name(k, p)
    IN  Renamed(order, d, cn, NoDict)

\* cn_to_header = {v: k for k, v in HEADER_MAP.items()}
cn_to_header(c) ==
    IF \E h \in DOMAIN HEADER_MAP : HEADER_MAP[h] = c
    THEN CHOOSE h \in DOMAIN HEADER_MAP : HEADER_MAP[h] = c
    ELSE c

\* cn_to_pkt.get(k): the last schema field with that desc, None when there is none
cn_to_pkt(c, p) ==
    IF p \in DOMAIN PACKET_DEFS /\ \E i \in 1..Len(FieldDescs[p]) : FieldDescs[p][i] = c
    THEN Some(PACKET_DEFS[p][CHOOSE i \in 1..Len(FieldDescs[p]) :
                 /\ FieldDescs[p][i] = c
                 /\ \A j \in (i + 1)..Len(FieldDescs[p]) : FieldDescs[p][j] # c].name)
    ELSE None

var_name_of(c, p) == IF cn_to_pkt(c, p) # None THEN cn_to_pkt(c, p)[1] ELSE cn_to_header(c)

translate_to_var(d, p, order) ==
    LET var(k) == var_name_of(k, p)
    IN  Renamed(order, d, var, NoDict)

HeaderSpellings == {pr[1] : pr \in {q \in LowerPairs : q[2] \in DOMAIN HEADER_MAP}}

\* the keys a caller may use for packet p: its field names and the header field
\* names in lower, upper and capitalised spelling
KeyUniverse(p) == FieldNames(p) \cup DOMAIN HEADER_MAP \cup HeaderSpellings

InitTranslate ==
    /\ packet_name \in DOMAIN PACKET_DEFS
    /\ \E k1 \in KeyUniverse(packet_name) : \E k2 \in KeyUniverse(packet_name) :
           data \in [{k1, k2} -> 1..2]
    /\ bin_str = <<>>
    /\ result = NoDict
    /\ cpc = "start"
    /\ GroupIdle /\ AuthIdle /\ FieldIdle /\ SimIdle /\ balises = <<>>

\* the insertion orders a mapping with the keys S can have
Orders(S) == {o \in [1..Cardinality(S) -> S] : \A k \in S : \E i \in DOMAIN o : o[i] = k}

ToCn ==
    /\ cpc = "start"
    /\ \E order \in Orders(DOMAIN data) :
           result' = translate_to_cn(data, packet_name, order)
    /\ cpc' = "cn"
    /\ UNCHANGED <<packet_name, data, bin_str, groupVars, balises, authVars, fieldVars, simVars>>

ToVar ==
    /\ cpc = "cn"
    /\ \E order \in Orders(DOMAIN result) :
           result' = translate_to_var(result, packet_name, order)
    /\ cpc' = "var"
    /\ UNCHANGED <<packet_name, data, bin_str, groupVars, balises, authVars, fieldVars, simVars>>

NextTranslate == ToCn \/ ToVar

SpecTranslate == InitTranslate /\ [][NextTranslate]_vars

SharedDescription(d, p) ==
    \E k1 \in DOMAIN d : \E k2 \in DOMAIN d :
        k1 # k2 /\ get_cn_name(k1, p) = get_cn_name(k2, p)

(* C23: for every packet type P and every mapping d whose keys are field names *)
(* of P or header field names, in any letter case the forward translation      *)
(* accepts, translate_to_var(translate_to_cn(d, P), P) has exactly the keys    *)
(* and values of d, except when two keys of d share one description.           *)
C23_TranslateRoundTrip ==
    (cpc = "var" /\ ~SharedDescription(data, packet_name)) => result = data

-----------------------------------------------------------------------------
(* Packet names without a schema: the names PACKET_TYPE_MAP lists and          *)
(* PACKET_DEFS does not define, and names neither table knows.                 *)

UndefinedNames == (PACKET_TYPE_MAP \ DOMAIN PACKET_DEFS) \cup {"", "ETCS-999"}

\* field mappings a caller may hand to encode_packet under such a name
LooseMappings ==
    UNION {[S -> {0 - 1, 0, 300}] : S \in SUBSET {"Q_DIR", "bogus"}}

\* input strings of at most MaxBits characters, not all of them binary
LooseStrings == UNION {[1..n -> {"0", "1", "x"}] : n \in 0..MaxBits}

InitUnknown ==
    /\ packet_name \in UndefinedNames
    /\ \/ cpc = "start" /\ data \in LooseMappings /\ bin_str = <<>>
       \/ cpc = "encoded" /\ data = NoDict /\ bin_str \in LooseStrings
    /\ result = NoDict
    /\ GroupIdle /\ AuthIdle /\ FieldIdle /\ SimIdle /\ balises = <<>>

NextUnknown == Encode \/ Decode

SpecUnknown == InitUnknown /\ [][NextUnknown]_vars

(* C24: for every packet name without a schema definition, the names the      *)
(* packet-type table lists without a layout included, encode_packet returns    *)
(* the empty string for every field mapping and decode_packet returns the      *)
(* one-entry mapping {raw: the input string} for every input.                  *)
C24_UndefinedPacket ==
    [][packet_name \notin DOMAIN PACKET_DEFS =>
          /\ (cpc = "start" /\ cpc' = "encoded") => bin_str' = <<>>
          /\ (cpc = "encoded" /\ cpc' = "decoded") =>
                 /\ DOMAIN result' = {"raw"}
                 /\ result'["raw"] = bin_str]_vars

\* ETCS-42, listed in PACKET_TYPE_MAP without a layout, has decoded an input
\* that is not a bit string
C24_Witness ==
    /\ cpc = "decoded"
    /\ packet_name = "ETCS-42"
    /\ packet_name \in PACKET_TYPE_MAP
    /\ bin_str = <<"1", "x", "0">>
    /\ result = [k \in {"raw"} |-> <<"1", "x", "0">>]

-----------------------------------------------------------------------------
(* The status of a timetable train over the fine ticks. *)

\* the place of a status in waiting -> traveling -> at_terminal -> finished
StatusRank(status) ==
    CASE status = "waiting" -> 0
      [] status = "traveling" -> 1
      [] status = "at_terminal" -> 2
      [] status = "finished" -> 3

TimeReached(train, key, now) == GetOpt(train, key) # None /\ now >= train[key][1]

(* C25: over the fine ticks the status of a timetable train only moves forward *)
(* along waiting -> traveling -> at_terminal -> finished: it leaves waiting    *)
(* only when simulated time has reached its departure time, goes on from       *)
(* at_terminal only when simulated time has reached its leave time, never      *)
(* returns to an earlier status, and once at_terminal its location stays at    *)
(* end_loc, once finished it stays unchanged.                                  *)
C25_StatusForward ==
    [][UpdateSimulation =>
         /\ Len(trains') = Len(trains)
         /\ \A k \in 1..Len(trains) :
               ~IsManual(trains[k]) =>
                   LET before == Get(trains[k], "status", "waiting")
                       after == trains'[k]["status"]
                   IN  /\ ~IsManual(trains'[k])
                       /\ after \in {"waiting", "traveling", "at_terminal", "finished"}
                       /\ StatusRank(after) >= StatusRank(before)
                       /\ (before = "waiting" /\ after # "waiting") =>
                              TimeReached(trains[k], "dep_time", current_sim_time)
                       /\ (before # "finished" /\ after = "finished") =>
                              TimeReached(trains[k], "leave_time", current_sim_time)
                       /\ before = "at_terminal" =>
                              trains'[k]["current_location"] = trains[k]["end_loc"][1]
                       /\ before \in {"at_terminal", "finished"} =>
                              trains'[k]["current_location"] = trains[k]["current_location"]
         ]_vars

\* a timetable train that left its start after its departure time stands at its
\* terminal before its leave time
C25_Witness ==
    \E k \in 1..Len(trains) :
        /\ ~IsManual(trains[k])
        /\ trains[k]["status"] = "at_terminal"
        /\ trains[k]["current_location"] = trains[k]["end_loc"][1]
        /\ trains[k]["current_location"] # trains[k]["start_loc"][1]
        /\ TimeReached(trains[k], "dep_time", current_sim_time)
        /\ ~TimeReached(trains[k], "leave_time", current_sim_time)

-----------------------------------------------------------------------------
(* The place of a timetable train after a fine tick. *)

\* the train runs the traveling block in a tick taken at time now
TravelsAt(train, now) ==
    \/ Get(train, "status", "waiting") = "traveling"
    \/ Get(train, "status", "waiting") = "waiting" /\ TimeReached(train, "dep_time", now)

WithinRun(train) ==
    /\ Min2(train["start_loc"][1], train["end_loc"][1]) <= train["current_location"]
    /\ train["current_location"] <= Max2(train["start_loc"][1], train["end_loc"][1])

(* C26: after every fine tick the location of a timetable train lies between  *)
(* its start_loc and its end_loc inclusive, in either direction of travel: a   *)
(* traveling step never carries it past end_loc, and at the first traveling    *)
(* tick at which simulated time has reached the arrival time its location is   *)
(* exactly end_loc, its status is at_terminal and its current_speed_limit is 0. *)
C26_WithinRun ==
    [][UpdateSimulation =>
         \A k \in 1..Len(trains) :
             ~IsManual(trains[k]) =>
                 /\ WithinRun(trains'[k])
                 /\ (TravelsAt(trains[k], current_sim_time)
                     /\ TimeReached(trains[k], "arr_time", current_sim_time)) =>
                        /\ trains'[k]["current_location"] = trains[k]["end_loc"][1]
                        /\ trains'[k]["status"] = "at_terminal"
                        /\ trains'[k]["current_speed_limit"] = 0]_vars

\* a timetable train whose arrival time has been reached stands at its terminal
\* with a speed limit of 0
C26_Witness ==
    \E k \in 1..Len(trains) :
        /\ ~IsManual(trains[k])
        /\ trains[k]["status"] = "at_terminal"
        /\ trains[k]["current_location"] = trains[k]["end_loc"][1]
        /\ TimeReached(trains[k], "arr_time", current_sim_time)
        /\ trains[k]["current_speed_limit"] = 0

-----------------------------------------------------------------------------
(* A manual train that ends at the balise's station. *)

ManualCaseB(t) == ~IsScheduled(t) /\ CaseB(t)

\* the engine returns GREEN for the balise when train j is the whole roster
GreenAlone(j) ==
    "CTCS-5" \notin DOMAIN get_effective_balise_packets(balises, <<trains[j]>>,
                                                        balise_pass_times, 1, current_sim_time)

(* C27: with CTCS-5 configured, a manual train relevant to the balise only as  *)
(* the train ending at the balise's station (case b) never makes the balise    *)
(* GREEN, whatever the time and the pass-time map, but it does not end the     *)
(* evaluation: a train later in the roster that authorizes GREEN still makes   *)
(* the balise GREEN.                                                           *)
C27_ManualEndStation ==
    Ctcs5Configured =>
        \A i \in 1..Len(trains) :
            ManualCaseB(trains[i]) =>
                /\ ~GreenAlone(i)
                /\ (\A j \in RelevantTrains : ManualCaseB(trains[j])) => ~ReturnsGreen
                /\ (\E j \in (i + 1)..Len(trains) : GreenAlone(j)) => ReturnsGreen

\* the exit balise of T: the first train of the roster is a manual train ending
\* at T, the second one authorizes GREEN, and the balise is GREEN
C27_Witness ==
    /\ Ctcs5Configured
    /\ balises[1]["name"] = <<"T", "C", "Z">>
    /\ Len(trains) = 2
    /\ ManualCaseB(trains[1])
    /\ ~GreenAlone(1) /\ GreenAlone(2)
    /\ PassRecorded
    /\ ReturnsGreen

-----------------------------------------------------------------------------
(* Balise crossings of a manual train that runs its line again and again and   *)
(* that the Up key makes jump.                                                 *)

\* the exit balise of S, red by default, and a balise on the open line
JumpRoster ==
    <<MkSimBalise(<<<<"S", "C", "Z">>, 1>>,
                  ("CTCS-5" :> StopTelegram) @@ ("ETCS-27" :> SspTelegram)),
      MkSimBalise(<<<<"M", "1">>, 5>>, ("ETCS-27" :> SspTelegram))>>

JumpTrains == <<ConfigTrain(<<"J", "u", "m", "p">>, <<"S">>, <<"T">>, 3, 2)>>

InitJump ==
    /\ CodecIdle /\ FieldIdle
    /\ roster0 = <<>> /\ runs = 0 /\ sim_set = TRUE
    /\ cfg_balises = process_balise_groups(JumpRoster)
    /\ train_templates = JumpTrains
    /\ schedule_entries = <<>>
    /\ balises = process_balise_ids(cfg_balises)
    /\ current_sim_time = 0
    /\ is_running = FALSE
    /\ balise_pass_times = NoDict
    /\ Loaded(SetConfigFresh(cfg_balises, train_templates, schedule_entries, <<>>, 0, 0))

\* "JUMP" in name or "Jump" in name or "jump" in name
JumpName(name) ==
    \/ Contains(name, <<"J", "U", "M", "P">>)
    \/ Contains(name, <<"J", "u", "m", "p">>)
    \/ Contains(name, <<"j", "u", "m", "p">>)

\* keyPressEvent with the Up key
KeyPressUp ==
    /\ trains' = [k \in 1..Len(trains) |->
                     IF JumpName(Get(trains[k], "name", <<>>))
                        /\ ~Get(trains[k], "is_jumping", FALSE)
                     THEN Put(Put(trains[k], "is_jumping", TRUE), "jump_v", 25)
                     ELSE trains[k]]
    /\ UNCHANGED <<codecVars, fieldVars, groupVars, balises, balise_pass_times,
                   current_sim_time, simVars>>

NextJump ==
    \/ StartSimulation
    \/ PauseSimulation
    \/ UpdateSimulation
    \/ TickSimTime
    \/ KeyPressUp

SpecJump == InitJump /\ [][NextJump]_vars

\* the balises in the inclusive interval between the place of the train and the
\* place its step takes it to
PassedBy(train) ==
    {i \in 1..Len(balises) :
        Between(Get(balises[i], "location", 0), train["current_location"],
                train["current_location"] + Get(train, "current_speed_limit", 20))}

PassTimeKept(i) ==
    IF i \in DOMAIN balise_pass_times
    THEN i \in DOMAIN balise_pass_times' /\ balise_pass_times'[i] = balise_pass_times[i]
    ELSE i \notin DOMAIN balise_pass_times'

\* the step of the train does not take it to the end of its line
ShortOfEnd(train) ==
    train["current_location"] + Get(train, "current_speed_limit", 20) < train["end_loc"][1]

\* the content of balise i evaluated against the pass times after the tick
FreshContent(i) ==
    get_effective_balise_packets(balises, trains, balise_pass_times', i, current_sim_time)

\* what the tick does for the balises the train passes: each pass time is the
\* simulated time, every other pass time is kept, and the train is stopped
\* exactly when the content evaluated against the fresh pass time is RED
CrossingHandled(train, after) ==
    /\ \A i \in PassedBy(train) :
          i \in DOMAIN balise_pass_times' /\ balise_pass_times'[i] = current_sim_time
    /\ \A i \in (1..Len(balises)) \ PassedBy(train) : PassTimeKept(i)
    /\ \A i \in PassedBy(train) :
          (PassedBy(train) = {i} /\ ShortOfEnd(train)) =>
              (after["base_speed"] = 0 <=> "CTCS-5" \in DOMAIN FreshContent(i))

-----------------------------------------------------------------------------
(* Manual trains at the end of their line: one configured train per            *)
(* installation, on a line with a temporary speed restriction.                 *)

\* the configured trains: stop, restart, turn back, restart without an initial
\* speed, restart on a line travelled from T to S, no stations at all
EndTrains ==
    {ConfigTrain(<<"G", "1">>, <<"S">>, <<"T">>, 3, 0),
     ConfigTrain(<<"G", "2">>, <<"S">>, <<"T">>, 3, 2),
     ConfigTrain(<<"G", "3">>, <<"S">>, <<"T">>, 3, 1),
     ConfigTrain(<<"G", "4">>, <<"S">>, <<"T">>, 0, 2),
     ConfigTrain(<<"G", "5">>, <<"T">>, <<"S">>, 3, 2),
     ConfigTrain(<<"G", "6">>, <<>>, <<>>, 3, 0)}

InitEnd ==
    /\ CodecIdle /\ FieldIdle
    /\ roster0 = <<>> /\ runs = 0 /\ sim_set = TRUE
    /\ cfg_balises = process_balise_groups(TsrRoster)
    /\ \E t \in EndTrains : train_templates = <<t>>
    /\ schedule_entries = <<>>
    /\ balises = process_balise_ids(cfg_balises)
    /\ current_sim_time = 0
    /\ is_running = FALSE
    /\ balise_pass_times = NoDict
    /\ Loaded(SetConfigFresh(cfg_balises, train_templates, schedule_entries, <<>>, 0, 0))

NextEnd ==
    \/ StartSimulation
    \/ PauseSimulation
    \/ StopSimulation
    \/ UpdateSimulation
    \/ TickSimTime

SpecEnd == InitEnd /\ [][NextEnd]_vars

\* limit_loc: the destination, or the track end when the train has none
LimitLoc(train) ==
    IF GetOpt(train, "end_loc") # None THEN train["end_loc"][1] ELSE track_length(balises)

\* the step of the tick takes the train to its limit or beyond
ReachesLimit(train) ==
    train["current_location"] + Get(train, "current_speed_limit", 20) >= LimitLoc(train)

\* initial_speed if positive else the line maximum
RestartSpeed(train) ==
    IF Get(train, "initial_speed", 0) > 0 THEN train["initial_speed"] ELSE LineMaxSpeed

\* what the end action leaves of the train
EndPlacement(train, after) ==
    ReachesLimit(train) =>
        IF Get(train, "end_action", 0) = 2
        THEN /\ after["current_location"] = train["start_loc"][1]
             /\ after["base_speed"] = RestartSpeed(train)
             /\ after["current_speed_limit"] = RestartSpeed(train)
             /\ after["active_restrictions"] = <<>>
        ELSE /\ after["current_location"] = LimitLoc(train)
             /\ after["current_speed_limit"] = 0
             /\ after["active_restrictions"] = <<>>

\* the roster after a fine tick taken now
AfterTick ==
    UpdateFrom(1, balises, [trains |-> trains, pass_times |-> balise_pass_times],
               is_running, current_sim_time).trains

(* C29: when the location of a manual train reaches or passes its destination  *)
(* (the track end when it has none) during a running tick, with end action 2   *)
(* it is placed at start_loc with base_speed and current_speed_limit both set  *)
(* to initial_speed if positive, else the line maximum, and its restrictions   *)
(* cleared; with any other end action it is placed exactly at the destination  *)
(* with current_speed_limit 0 and its restrictions cleared; so its location    *)
(* never exceeds the destination after a tick.                                 *)
C29_EndOfLine ==
    is_running =>
        \A k \in 1..Len(trains) :
            IsManual(trains[k]) =>
                /\ EndPlacement(trains[k], AfterTick[k])
                /\ AfterTick[k]["current_location"] <= LimitLoc(trains[k])

\* the placement by the end action alone
C29_EndPlacement ==
    is_running =>
        \A k \in 1..Len(trains) :
            IsManual(trains[k]) => EndPlacement(trains[k], AfterTick[k])

-----------------------------------------------------------------------------
(* The temporary speed restriction of a CTCS-2 telegram. *)

\* the scale of a Q_SCALE code in decimetres: 0.1 m, 1 m, 10 m, else 1 m
ScaleDm(q_scale) == IF q_scale = 0 THEN 1 ELSE IF q_scale = 2 THEN 100 ELSE 10

\* the restriction the statement gives for the telegram val crossed at b_loc,
\* in location units of 0.8 m and speed units of 5 km/h
StatedRestriction(val, b_loc) ==
    LET pkt == decode_packet("CTCS-2", val)
        start_km == b_loc + (pkt["D_TSR"] * ScaleDm(pkt["Q_SCALE"])) \div 8
    IN  [start_km |-> start_km,
         end_km |-> Some(start_km + (pkt["L_TSR"] * ScaleDm(pkt["Q_SCALE"])) \div 8),
         speed |-> pkt["V_TSR"]]

\* the restrictions of the train after the crossing are those it held, in
\* their order, and the stated one after them
OneAppended(held, now_held, val, b_loc) ==
    /\ Len(now_held) = Len(held) + 1
    /\ SubSeq(now_held, 1, Len(held)) = held
    /\ now_held[Len(now_held)] = StatedRestriction(val, b_loc)

(* C30: when a train crosses a balise whose effective content carries a        *)
(* decodable CTCS-2 telegram, exactly one restriction is appended to the       *)
(* train's active restrictions, with start_km = balise location + D_TSR *      *)
(* scale / 1000, end_km = start_km + L_TSR * scale / 1000 and speed = V_TSR *  *)
(* 5 (scale 0.1, 1.0, 10.0 for Q_SCALE 0, 1, 2, else 1.0), and every           *)
(* restriction the train already held is kept unchanged.                       *)
C30_TsrAppended ==
    (cpc = "handled" /\ HasTsr(Effective)) =>
        OneAppended(trains[1]["active_restrictions"], result["active_restrictions"],
                    Effective["CTCS-2"], balises[1]["location"])

\* the same when the effective content has no CTCS-5 key
C30_TsrAppendedNoStopKey ==
    (cpc = "handled" /\ HasTsr(Effective) /\ "CTCS-5" \notin DOMAIN Effective) =>
        OneAppended(trains[1]["active_restrictions"], result["active_restrictions"],
                    Effective["CTCS-2"], balises[1]["location"])

-----------------------------------------------------------------------------
(* The line speed of an ETCS-27 telegram: handle_balise_pass over balises     *)
(* that carry ETCS-27 telegrams of every shape of V_STATIC, D_STATIC and      *)
(* Q_SCALE, alone or beside a CTCS-5 cell.                                    *)

\* V_STATIC codes: 0, a speed below the line maximum, one above it, the
\* largest speed code, the end-of-profile code
SspSpeeds == {0, 2, 9, 126, 127}
\* D_STATIC: no offset, an offset inside the line, the largest offset
SspOffsets == {0, 8, 32767}

SspTelegrams ==
    {encode_packet("ETCS-27", ("Q_SCALE" :> q) @@ ("V_STATIC" :> v) @@ ("D_STATIC" :> d)) :
        q \in 0..3, v \in SspSpeeds, d \in SspOffsets}

\* the balise has no CTCS-5 key, a blank CTCS-5 cell, or a CTCS-5 telegram (RED
\* content then has no ETCS-27, GREEN content no CTCS-5)
SspPacketSets ==
    {("ETCS-27" :> t) : t \in SspTelegrams}
        \cup {("CTCS-5" :> <<" ">>) @@ ("ETCS-27" :> t) : t \in SspTelegrams}
        \cup {("CTCS-5" :> StopTelegram) @@ ("ETCS-27" :> t) : t \in SspTelegrams}

SspTrains ==
    {ManualTrain(<<"S">>, <<"T">>, 0, 10),
     ScheduleTrain(<<"S">>, <<"T">>, 0, 10, Some(DepT), Some(LeaveT))}

InitSsp ==
    /\ \E packets \in SspPacketSets :
            balises = process_balise_ids(<<MkSimBalise(<<<<"S", "C", "Z">>, 1>>, packets)>>)
    /\ \E kind \in SspTrains : \E base \in {1, LineMaxSpeed} :
       \E restrs \in {<<>>, <<[start_km |-> 1, end_km |-> None, speed |-> 3]>>} :
            trains = <<M1(kind, RestrictedTrain(balises[1]["location"], base, restrs))>>
    /\ current_sim_time \in {0, DepT, LeaveT}
    /\ balise_pass_times = (1 :> current_sim_time)
    /\ result = NoDict
    /\ cpc = "start"
    /\ packet_name = "" /\ data = NoDict /\ bin_str = <<>>
    /\ roster0 = <<>> /\ cfg_balises = <<>> /\ runs = 0 /\ sim_set = TRUE
    /\ FieldIdle /\ SimIdle

NextSsp == HandleBalisePass

SpecSsp == InitSsp /\ [][NextSsp]_vars

\* the fields of the ETCS-27 telegram of the effective content
SspFields == decode_packet("ETCS-27", Effective["ETCS-27"])

\* the restrictions the train holds once the absolute stop, if any, is applied
HeldAfterStop ==
    IF "CTCS-5" \in DOMAIN Effective THEN <<>> ELSE trains[1]["active_restrictions"]

(* C31: when a train crosses a balise whose effective content carries a        *)
(* decodable ETCS-27 telegram, its base_speed is set during that crossing to   *)
(* the line's configured maximum if V_STATIC is 127 and to V_STATIC * 5        *)
(* otherwise, for every value of D_STATIC; the telegram adds no restriction    *)
(* and the change does not wait for the train to reach the offset.             *)
C31_LineSpeed ==
    (cpc = "handled" /\ HasSsp(Effective)) =>
        /\ result["base_speed"] =
              IF SspFields["V_STATIC"] = 127 THEN LineMaxSpeed ELSE SspFields["V_STATIC"]
        /\ result["active_restrictions"] = HeldAfterStop

\* a crossing with an offset and a speed code changes the base speed at once
C31_Witness ==
    /\ cpc = "handled" /\ HasSsp(Effective)
    /\ SspFields["D_STATIC"] = 32767 /\ SspFields["V_STATIC"] = 9
    /\ trains[1]["base_speed"] = 1 /\ result["base_speed"] = 9
    /\ "CTCS-5" \in DOMAIN Effective

-----------------------------------------------------------------------------
(* The timetable file changes on disk while the simulation goes on: the next  *)
(* coarse tick loads the file anew and resets the schedule state.             *)

\* what the timetable file may hold after a change: nothing, one run, the run
\* and a run of the configured train's name in the other direction, a run
\* that starts at once and ends early
TimetableFiles ==
    {<<>>,
     <<ScheduleEntry(<<"D", "1">>, <<"S">>, <<"T">>, Some(1), Some(2), Some(4), Some(5))>>,
     <<ScheduleEntry(<<"D", "1">>, <<"S">>, <<"T">>, Some(1), Some(2), Some(4), Some(5)),
       ScheduleEntry(<<"G", "1">>, <<"T">>, <<"S">>, None, Some(3), Some(5), None)>>,
     <<ScheduleEntry(<<"D", "3">>, <<"S">>, <<"T">>, Some(0), Some(1), Some(2), Some(3))>>}

InitReload ==
    /\ CodecIdle /\ FieldIdle
    /\ roster0 = <<>> /\ runs = 0 /\ sim_set = TRUE
    /\ cfg_balises = process_balise_groups(TsrRoster)
    /\ train_templates = <<ConfigTrain(<<"G", "1">>, <<"S">>, <<"T">>, 3, 0)>>
    /\ schedule_entries \in TimetableFiles
    /\ balises = process_balise_ids(cfg_balises)
    /\ current_sim_time = 0
    /\ is_running = FALSE
    /\ balise_pass_times = NoDict
    /\ Loaded(SetConfigFresh(cfg_balises, train_templates, schedule_entries, <<>>, 0, 0))

\* the clock, the timetable, the runtime entries and the roster after a
\* tick_sim_time that found the file changed
ReloadRead(now, file, c) ==
    /\ now <= SimEnd
    /\ current_sim_time' = now
    /\ schedule_entries' = file
    /\ schedule_runtime' = c.runtime
    /\ trains' = c.trains
    /\ UNCHANGED <<codecVars, fieldVars, groupVars, balises, balise_pass_times,
                   is_running, train_templates>>

\* tick_sim_time d seconds after the clock's last reading, the timetable file
\* having been rewritten to file meanwhile: load_schedule_entries,
\* _reset_schedule_state with the clock as cutoff, _update_schedule_trains
ReloadStep(d, file) ==
    ReloadRead(current_sim_time + d, file,
               UpdateSchedule(reset_schedule_state(file, trains, current_sim_time + d),
                              train_templates, current_sim_time + d))

TickSimTimeReload == \E d \in 1..2 : \E file \in TimetableFiles : ReloadStep(d, file)

NextReload ==
    \/ StartSimulation
    \/ PauseSimulation
    \/ UpdateSimulation
    \/ TickSimTime
    \/ TickSimTimeReload

SpecReload == InitReload /\ [][NextReload]_vars

\* the manual trains of a roster, in order
ManualTrains(ts) == SelectSeq(ts, IsManual)

\* the train of entry i of the file is in the roster ts as the reset made it,
\* at the place the runtime entry e refers to, and nowhere else
FreshTrainOf(file, i, e, ts, now) ==
    /\ e["created"] /\ ~e["removed"] /\ e["train_ref"] # None
    /\ e["train_ref"][1] \in 1..Len(ts)
    /\ ts[e["train_ref"][1]] = create_schedule_train(file[i], train_templates, now)
    /\ {k \in 1..Len(ts) : ~IsManual(ts[k]) /\ ts[k]["name"] = file[i]["train_name"]}
           = {e["train_ref"][1]}

\* entry i of the file has no train in the roster ts
NoTrainOf(file, i, ts) ==
    \A k \in 1..Len(ts) : ~(~IsManual(ts[k]) /\ ts[k]["name"] = file[i]["train_name"])

\* every timetable train of the roster ts is the train of an entry of the file
AllFresh(file, runtime, ts) ==
    \A k \in 1..Len(ts) :
        ~IsManual(ts[k]) =>
            \E i \in 1..Len(file) : runtime[i]["train_ref"] = Some(k)

\* the roster and runtime entries after a reset at now to the file, entries
\* whose leave time is earlier than expiry_bound counting as expired
ResetOutcome(file, now, expiry_bound, before, after, runtime) ==
    /\ ManualTrains(after) = ManualTrains(before)
    /\ Len(runtime) = Len(file)
    /\ AllFresh(file, runtime, after)
    /\ \A i \in 1..Len(file) :
          IF LeaveTime(file[i]) # None /\ LeaveTime(file[i])[1] < expiry_bound
          THEN runtime[i]["removed"] /\ NoTrainOf(file, i, after)
          ELSE IF Triggered(file[i], now)
          THEN FreshTrainOf(file, i, runtime[i], after, now)
          ELSE /\ ~runtime[i]["created"] /\ ~runtime[i]["removed"]
               /\ NoTrainOf(file, i, after)

\* while the timetable stays as loaded, a removed entry stays removed and
\* without train, and an entry whose trigger time is reached before its leave
\* time has its train
AfterReset ==
    /\ [][schedule_entries' = schedule_entries =>
            \A i \in 1..Len(schedule_runtime) :
                schedule_runtime[i]["removed"] =>
                    /\ schedule_runtime'[i]["removed"]
                    /\ EntryTrains(trains', schedule_runtime', i) = {}]_vars
    /\ [](\A i \in 1..Len(schedule_runtime) :
             (Triggered(schedule_runtime[i], current_sim_time)
                 /\ ~Left(schedule_runtime[i], current_sim_time)) =>
                    EntryTrains(trains, schedule_runtime, i) # {})

-----------------------------------------------------------------------------
(* load_schedule_entries on one row of the timetable file.  A day has         *)
(* DaySlots times of day; a cell holds a time of day, nothing, or text that   *)
(* is no time.  A parsed time is a number of slots since the base date's      *)
(* midnight.                                                                  *)

DaySlots == 4

\* what a time cell of the file may hold
TimeCells == {<<>>, <<"x">>} \cup {StrOf(t) : t \in 0..(DaySlots - 1)}

\* _parse_time_value(value, base_date): None for a blank cell or one that is
\* no time of day
parse_time_value(value) ==
    IF Strip(value) = <<>> THEN None
    ELSE IF IsDigit(Strip(value)) /\ IntOf(value) < DaySlots THEN Some(IntOf(value))
    ELSE None

RECURSIVE RollOver(_, _, _)
\* the loop over times = [arr_start, dep_start, arr_end, leave_end], lines
\* 484-490, from position idx on with prev as left by the positions before
RollOver(times, idx, prev) ==
    IF idx > Len(times) THEN times
    ELSE IF times[idx] = None THEN RollOver(times, idx + 1, prev)
    ELSE IF prev # None /\ times[idx][1] < prev[1]
         THEN RollOver([times EXCEPT ![idx] = Some(times[idx][1] + DaySlots)], idx + 1,
                       Some(times[idx][1] + DaySlots))
    ELSE RollOver(times, idx + 1, times[idx])

\* the times of the entry built from the row's cells 2, 3, 5 and 6
load_schedule_row(row) ==
    LET times == RollOver(<<parse_time_value(row["arr_start"]),
                            parse_time_value(row["dep_start"]),
                            parse_time_value(row["arr_end"]),
                            parse_time_value(row["leave_end"])>>, 1, None)
    IN  [k \in {"arr_start", "dep_start", "arr_end", "leave_end"} |->
            CASE k = "arr_start" -> times[1]
              [] k = "dep_start" -> OrElse(times[2], times[1])
              [] k = "arr_end" -> times[3]
              [] k = "leave_end" -> OrElse(times[4], times[3])]

\* the time columns of a row in the order of the file
FileOrder == <<"arr_start", "dep_start", "leave_end", "arr_end">>

InitTimetable ==
    /\ data \in [{"arr_start", "dep_start", "leave_end", "arr_end"} -> TimeCells]
    /\ result = NoDict
    /\ cpc = "start"
    /\ packet_name = "" /\ bin_str = <<>>
    /\ balise_pass_times = NoDict /\ current_sim_time = 0 /\ trains = <<>>
    /\ GroupIdle /\ FieldIdle /\ SimIdle /\ balises = <<>>

\* the row is read; result holds the times of its entry
LoadScheduleRow ==
    /\ cpc = "start"
    /\ result' = load_schedule_row(data)
    /\ cpc' = "loaded"
    /\ UNCHANGED <<packet_name, data, bin_str, fieldVars, groupVars, balises, authVars,
                   simVars>>

NextTimetable == LoadScheduleRow

SpecTimetable == InitTimetable /\ [][NextTimetable]_vars

\* the cell of column k holds a time of day
HasTime(k) == parse_time_value(data[k]) # None

(* C33: when a schedule row is parsed, a time in a later column that is        *)
(* numerically earlier than a time in an earlier column of the same row        *)
(* (columns in file order: arr_start, dep_start, leave_end, arr_end) is placed *)
(* on the next day, so that the parsed times of the row are in chronological   *)
(* order: each non-missing time is not earlier than the non-missing times      *)
(* before it; a missing dep_start takes the value of arr_start and a missing   *)
(* leave_end the value of arr_end.                                             *)
C33_RowChronological ==
    cpc = "loaded" =>
        /\ \A i \in 1..4 : \A j \in (i + 1)..4 :
              (HasTime(FileOrder[i]) /\ HasTime(FileOrder[j])) =>
                  result[FileOrder[i]][1] <= result[FileOrder[j]][1]
        /\ ~HasTime("dep_start") => result["dep_start"] = result["arr_start"]
        /\ ~HasTime("leave_end") => result["leave_end"] = result["arr_end"]

\* the fallbacks alone, and the order of each time against the time the loop
\* met just before it
C33_Fallbacks ==
    cpc = "loaded" =>
        /\ ~HasTime("dep_start") => result["dep_start"] = result["arr_start"]
        /\ ~HasTime("leave_end") => result["leave_end"] = result["arr_end"]
        /\ (HasTime("arr_start") /\ HasTime("dep_start")) =>
              result["arr_start"][1] <= result["dep_start"][1]

-----------------------------------------------------------------------------
(* Telegrams that cannot be decoded: two balises on the open line carry, in   *)
(* every combination, no telegram, a telegram, or a telegram with a character *)
(* that is no binary digit, and two manual trains run over them.              *)

\* a CTCS-2 telegram with an x inside V_TSR, an ETCS-27 telegram whose last
\* character, in N_ITER, is a 2
GarbledTsrTelegram == [TsrTelegram EXCEPT ![14] = "x"]
GarbledSspTelegram == [SspTelegram EXCEPT ![Len(SspTelegram)] = "2"]

\* what the cells CTCS-2 and ETCS-27 of a balise hold
GarbledPacketSets ==
    {M1(IF tsr = Absent THEN <<>> ELSE ("CTCS-2" :> tsr),
        IF ssp = Absent THEN <<>> ELSE ("ETCS-27" :> ssp)) :
        tsr \in {Absent, TsrTelegram, GarbledTsrTelegram},
        ssp \in {Absent, SspTelegram, GarbledSspTelegram}}

GarbledTrains ==
    <<ConfigTrain(<<"G", "1">>, <<"S">>, <<"T">>, 3, 0),
      ConfigTrain(<<"G", "2">>, <<"S">>, <<"T">>, 4, 0)>>

InitGarbled ==
    /\ CodecIdle /\ FieldIdle
    /\ roster0 = <<>> /\ runs = 0 /\ sim_set = TRUE
    /\ \E p1 \in GarbledPacketSets : \E p2 \in GarbledPacketSets :
          cfg_balises = process_balise_groups(<<MkSimBalise(<<<<"M", "1">>, 2>>, p1),
                                                MkSimBalise(<<<<"M", "2">>, 3>>, p2)>>)
    /\ train_templates = GarbledTrains
    /\ schedule_entries = <<>>
    /\ balises = process_balise_ids(cfg_balises)
    /\ current_sim_time = 0
    /\ is_running = FALSE
    /\ balise_pass_times = NoDict
    /\ Loaded(SetConfigFresh(cfg_balises, train_templates, schedule_entries, <<>>, 0, 0))

NextGarbled == StartSimulation \/ PauseSimulation \/ StopSimulation \/ UpdateSimulation

SpecGarbled == InitGarbled /\ [][NextGarbled]_vars

\* the cell k of the balise holds a telegram that decode_packet raises on
Garbled(balise, k) ==
    k \in DOMAIN balise /\ IsTelegram(balise[k]) /\ decode_raises(k, balise[k])

\* the roster without the CTCS-2 and ETCS-27 cells that cannot be decoded
Cleaned(bs) ==
    [i \in 1..Len(bs) |->
        [k \in {x \in DOMAIN bs[i] : ~(x \in {"CTCS-2", "ETCS-27"} /\ Garbled(bs[i], x))} |->
            bs[i][k]]]

\* the roster and the pass times after the tick had the roster been without
\* those cells
CleanTick ==
    UpdateFrom(1, Cleaned(balises), [trains |-> trains, pass_times |-> balise_pass_times],
               is_running, current_sim_time)

\* no balise between the two locations carries a telegram that can be decoded
NothingToApply(bs, old_pos, new_pos) ==
    \A i \in 1..Len(bs) :
        Between(bs[i]["location"], old_pos, new_pos) =>
            ~HasTsr(bs[i]) /\ ~HasSsp(bs[i])

(* C34: when a crossed balise carries a CTCS-2 or ETCS-27 telegram that cannot *)
(* be decoded, that packet changes neither the train's base_speed nor its      *)
(* active restrictions, the other packets of the same balise are still         *)
(* applied, and the remaining balises of the crossing and the remaining trains *)
(* of the tick are still processed: the tick ends as it would had the roster   *)
(* been without the packets that cannot be decoded, every balise on the way of *)
(* a train has its pass time recorded, and a train that meets no packet that   *)
(* can be decoded and stays short of its destination keeps its base_speed and  *)
(* gains no restriction.                                                       *)
C34_GarbledSkipped ==
    [][UpdateSimulation =>
          /\ trains' = CleanTick.trains
          /\ balise_pass_times' = CleanTick.pass_times
          /\ \A k \in 1..Len(trains) :
                /\ \A i \in 1..Len(balises) :
                      (trains'[k]["current_location"] # trains[k]["current_location"]
                          /\ Between(balises[i]["location"], trains[k]["current_location"],
                                     trains'[k]["current_location"]))
                        => /\ i \in DOMAIN balise_pass_times'
                           /\ balise_pass_times'[i] = current_sim_time
                /\ (NothingToApply(balises, trains[k]["current_location"],
                                   trains'[k]["current_location"])
                          /\ trains'[k]["current_location"] < LimitLoc(trains[k]))
                        => /\ trains'[k]["base_speed"] = trains[k]["base_speed"]
                           /\ Len(trains'[k]["active_restrictions"])
                                 <= Len(trains[k]["active_restrictions"])]_vars

\* both trains ran in one tick over a balise with a garbled CTCS-2 beside a
\* line speed and a balise with a garbled ETCS-27 beside a speed restriction:
\* each has the line speed and the restriction
C34_Witness ==
    /\ Garbled(balises[1], "CTCS-2") /\ HasSsp(balises[1])
    /\ Garbled(balises[2], "ETCS-27") /\ HasTsr(balises[2])
    /\ DOMAIN balise_pass_times = {1, 2}
    /\ trains[1]["current_location"] = 3 /\ trains[2]["current_location"] = 4
    /\ \A k \in 1..2 : /\ trains[k]["base_speed"] = 2
                       /\ Len(trains[k]["active_restrictions"]) = 1

-----------------------------------------------------------------------------
(* The two copies of the assigner on the same roster: records arrive with or  *)
(* without father, sub_id and n_pig; ConfigManager.process_balise_groups runs  *)
(* on the list and SimulationWidget._process_balise_ids on a copy of it as it  *)
(* arrived (the widget gets the list unprocessed when it was loaded from       *)
(* balises.json).                                                              *)

\* rosters of up to TwinLen records
TwinLen == 2

\* father cells: empty, blank, father A
TwinFathers == {<<>>, <<" ">>, <<"A">>}
\* sub_id cells: absent, numeric, non-numeric
TwinSubIds == {Absent, <<"5">>, <<"x">>}
\* n_pig cells: absent, the singleton's value, another position
TwinNPigs == {Absent, <<"0", "0", "0">>, <<"1", "0", "1">>}

MkTwinBalise(i, cells) ==
    IF cells[3] = Absent THEN MkBalise(i, cells[1], cells[2])
    ELSE Put(MkBalise(i, cells[1], cells[2]), "n_pig", cells[3])

InitTwin ==
    /\ \E n \in 1..TwinLen : \E c \in [1..n -> TwinFathers \X TwinSubIds \X TwinNPigs] :
            roster0 = [i \in 1..n |-> MkTwinBalise(i, c[i])]
    /\ cfg_balises = roster0
    /\ runs = 0
    /\ balises = <<>>
    /\ sim_set = FALSE
    /\ CodecIdle /\ AuthIdle /\ FieldIdle /\ SimIdle

\* ConfigManager.process_balise_groups on the list
RunProcessBaliseGroups ==
    /\ runs = 0
    /\ cfg_balises' = process_balise_groups(cfg_balises)
    /\ runs' = 1
    /\ UNCHANGED <<codecVars, fieldVars, simVars, authVars, roster0, balises, sim_set>>

\* set_config on the list as it arrived: _process_balise_ids on the deep copy
RunProcessBaliseIds ==
    /\ ~sim_set
    /\ balises' = process_balise_ids(roster0)
    /\ sim_set' = TRUE
    /\ UNCHANGED <<codecVars, fieldVars, simVars, authVars, roster0, cfg_balises, runs>>

NextTwin == RunProcessBaliseGroups \/ RunProcessBaliseIds

SpecTwin == InitTwin /\ [][NextTwin]_vars

\* the cell k of a record, Absent when the record has no such key
Cell(b, k) == Get(b, k, Absent)

\* the record is as the statement leaves a record without father
IsSingleton(b) ==
    /\ Cell(b, "sub_id") = <<"0">>
    /\ Cell(b, "n_pig") = <<"0", "0", "0">>
    /\ Cell(b, "n_total") = <<"1">>
    /\ Cell(b, "q_link") = <<"0">>

(* C35: every record whose father_balise is empty or blank ends the assigner   *)
(* run with sub_id '0', n_pig '000', n_total '1' and q_link '0', whatever      *)
(* sub_id and n_pig it had before, in the configuration manager's assigner and *)
(* in the simulation engine's assigner.                                        *)
C35_SingletonFields ==
    /\ runs = 1 =>
          \A i \in 1..Len(cfg_balises) :
              FatherId(roster0[i]) = <<>> => IsSingleton(cfg_balises[i])
    /\ sim_set =>
          \A i \in 1..Len(balises) :
              FatherId(roster0[i]) = <<>> => IsSingleton(balises[i])

\* the same for the configuration manager's assigner alone
C35_SingletonFieldsPersisted ==
    runs = 1 =>
        \A i \in 1..Len(cfg_balises) :
            FatherId(roster0[i]) = <<>> => IsSingleton(cfg_balises[i])

(* C40: ConfigManager.process_balise_groups and                                *)
(* SimulationWidget._process_balise_ids produce the same sub_id, n_total,      *)
(* q_link and n_pig for every record of every roster.                          *)
C40_SameAssignment ==
    (runs = 1 /\ sim_set) =>
        \A i \in 1..Len(roster0) :
            \A k \in {"sub_id", "n_total", "q_link", "n_pig"} :
                Cell(balises[i], k) = Cell(cfg_balises[i], k)

\* the same without n_pig
C40_SameButNPig ==
    (runs = 1 /\ sim_set) =>
        \A i \in 1..Len(roster0) :
            \A k \in {"sub_id", "n_total", "q_link"} :
                Cell(balises[i], k) = Cell(cfg_balises[i], k)

-----------------------------------------------------------------------------
(* The order of the train roster and the authorization engine. *)

\* the orderings of a roster of n trains
RosterOrders(n) == {p \in [1..n -> 1..n] : \A i \in 1..n : \E j \in 1..n : p[j] = i}

\* the roster ts in the order p
Reordered(ts, p) == [i \in 1..Len(ts) |-> ts[p[i]]]

\* train k of the roster sets is_green for balise 1 at the present time
AuthorizesNow(k) ==
    Authorizes(trains[k], balises[1], LastPass(balise_pass_times, 1), current_sim_time)

(* C36: the RED/GREEN outcome of the authorization engine for a balise is the  *)
(* same for every ordering of the train roster: for a fixed set of trains,     *)
(* time and pass-time map, permuting the roster never changes the returned     *)
(* content.                                                                    *)
C36_RosterOrder ==
    \A p \in RosterOrders(Len(trains)) :
        get_effective_balise_packets(balises, Reordered(trains, p), balise_pass_times, 1,
                                     current_sim_time) = Effective

\* a balise with CTCS-5 whose pass is recorded, a first train that is relevant
\* and does not authorize and a second one that does: the content is GREEN
C36_Witness ==
    /\ Ctcs5Configured /\ PassRecorded
    /\ Len(trains) = 2
    /\ RelevanceCase(trains[1], balises[1]) # "none" /\ ~AuthorizesNow(1)
    /\ AuthorizesNow(2)
    /\ ReturnsGreen

-----------------------------------------------------------------------------
(* Trains that stand on a balise or stop exactly on one: balises with a       *)
(* CTCS-2 telegram lie at station S, at the place a manual train's first step *)
(* ends, and at station T.                                                    *)

StandRoster ==
    <<MkSimBalise(<<<<"M", "0">>, 0>>, ("CTCS-2" :> MetreTsrTelegram)),
      MkSimBalise(<<<<"M", "3">>, 3>>, ("CTCS-2" :> MetreTsrTelegram)),
      MkSimBalise(<<<<"M", "9">>, 10>>, ("CTCS-2" :> MetreTsrTelegram))>>

\* no train, a manual train, with and without a run of the timetable
StandWorlds ==
    {[trains |-> ts, timetable |-> tt] :
        ts \in {<<>>, <<ConfigTrain(<<"G", "1">>, <<"S">>, <<"T">>, 3, 0)>>},
        tt \in {<<>>, <<ScheduleEntry(<<"D", "1">>, <<"S">>, <<"T">>,
                                      Some(1), Some(2), Some(4), Some(5))>>}}

InitStand ==
    /\ CodecIdle /\ FieldIdle
    /\ roster0 = <<>> /\ runs = 0 /\ sim_set = TRUE
    /\ cfg_balises = process_balise_groups(StandRoster)
    /\ \E w \in StandWorlds : train_templates = w.trains /\ schedule_entries = w.timetable
    /\ balises = process_balise_ids(cfg_balises)
    /\ current_sim_time = 0
    /\ is_running = FALSE
    /\ balise_pass_times = NoDict
    /\ Loaded(SetConfigFresh(cfg_balises, train_templates, schedule_entries, <<>>, 0, 0))

NextStand == StartSimulation \/ PauseSimulation \/ UpdateSimulation \/ TickSimTime

SpecStand == InitStand /\ [][NextStand]_vars

\* balise i is passed by a move from old_pos to new_pos and was not handled
\* when the step before ended: it lies behind the place the move ends, or at
\* it, and the place the move began counts only while no pass of the balise is
\* recorded; a train that stays where it is passes nothing
PassedOnce(i, old_pos, new_pos) ==
    LET b_loc == balises[i]["location"]
    IN  \/ old_pos < b_loc /\ b_loc <= new_pos
        \/ new_pos <= b_loc /\ b_loc < old_pos
        \/ old_pos # new_pos /\ b_loc = old_pos /\ i \notin DOMAIN balise_pass_times

\* the balises with a restriction to hand out that the move passes
TsrPassed(old_pos, new_pos) ==
    {i \in 1..Len(balises) : HasTsr(balises[i]) /\ PassedOnce(i, old_pos, new_pos)}

(* C37: each passage of a train over a balise triggers the balise's packet     *)
(* handling and pass-time recording exactly once: a train that does not change *)
(* location during a tick triggers none, and a train whose step ended exactly  *)
(* on a balise's location does not handle that balise again on the next tick;  *)
(* hence a train standing still never accumulates restrictions.                *)
C37_OncePerPassage ==
    [][UpdateSimulation =>
          /\ \A k \in 1..Len(trains) :
                Len(trains'[k]["active_restrictions"])
                    <= Len(trains[k]["active_restrictions"])
                         + Cardinality(TsrPassed(trains[k]["current_location"],
                                                 trains'[k]["current_location"]))
          /\ \A i \in DOMAIN balise_pass_times' :
                (i \notin DOMAIN balise_pass_times
                    \/ balise_pass_times'[i] # balise_pass_times[i])
                  => \E k \in 1..Len(trains) :
                        PassedOnce(i, trains[k]["current_location"],
                                   trains'[k]["current_location"])]_vars

-----------------------------------------------------------------------------
(* A balise whose CTCS-5 cell is blank, against the same balise without the   *)
(* cell.                                                                      *)

\* the CTCS-5 key is present and its value is empty or whitespace
BlankStopCell == "CTCS-5" \in DOMAIN balises[1] /\ Strip(balises[1]["CTCS-5"]) = <<>>

\* the roster with the CTCS-5 key of its balise taken away
StopCellAbsent ==
    <<[k \in DOMAIN balises[1] \ {"CTCS-5"} |-> balises[1][k]]>>

\* the train after crossing the balise without the CTCS-5 key
CrossedAbsent ==
    handle_balise_pass(trains[1], StopCellAbsent, trains, balise_pass_times, 1,
                       current_sim_time)

(* C38: a train that crosses a balise whose CTCS-5 value is blank is not      *)
(* stopped by it: after the crossing its base_speed, its current_speed_limit  *)
(* and its restrictions are what they are after crossing the same balise      *)
(* with the CTCS-5 key absent.                                                *)
C38_BlankNotStopping ==
    (cpc = "handled" /\ BlankStopCell) =>
        /\ result["base_speed"] = CrossedAbsent["base_speed"]
        /\ result["current_speed_limit"] = CrossedAbsent["current_speed_limit"]
        /\ result["active_restrictions"] = CrossedAbsent["active_restrictions"]

\* what does hold: the packets behind the blank cell are applied as without it,
\* to a train that the blank cell has stopped first
C38_BlankStopsFirst ==
    (cpc = "handled" /\ BlankStopCell) =>
        result = handle_balise_pass(
                     M1(trains[1], ("current_speed_limit" :> 0) @@ ("base_speed" :> 0)
                                   @@ ("active_restrictions" :> <<>>)),
                     StopCellAbsent, trains, balise_pass_times, 1, current_sim_time)

-----------------------------------------------------------------------------------------------------------------------------------------------------
(* The run of a timetable train to its terminal.  The exit balise of station  *)
(* T lies at location 8, before the station, and shows an absolute stop until *)
(* the leave time of a train that ends at T: the timetable train D1 leaves S  *)
(* with the line speed, crosses it and stands at 8 with both speeds 0.  The   *)
(* timetable gives D1 two seconds at T, one second, or no leave time at all   *)
(* (the leave time of the entry then is its arrival time).  The timetable     *)
(* file is not touched.                                                       *)

ArriveRoster ==
    <<MkSimBalise(<<<<"T", "C", "Z">>, 8>>, ("CTCS-5" :> StopTelegram))>>

ArriveTimetables ==
    {<<ScheduleEntry(<<"D", "1">>, <<"S">>, <<"T">>, Some(1), Some(2), Some(4), leave_end)>> :
        leave_end \in {Some(6), Some(5), Some(4)}}

InitArrive ==
    /\ CodecIdle /\ FieldIdle
    /\ roster0 = <<>> /\ runs = 0 /\ sim_set = TRUE
    /\ cfg_balises = process_balise_groups(ArriveRoster)
    /\ train_templates \in {<<>>, <<ConfigTrain(<<"G", "1">>, <<"S">>, <<"T">>, 3, 0)>>}
    /\ schedule_entries \in ArriveTimetables
    /\ balises = process_balise_ids(cfg_balises)
    /\ current_sim_time = 0
    /\ is_running = FALSE
    /\ balise_pass_times = NoDict
    /\ Loaded(SetConfigFresh(cfg_balises, train_templates, schedule_entries, <<>>, 0, 0))

\* tick_sim_time while the timetable file stays as it is
TickSimTimeKept ==
    \E d \in 1..2 :
        ClockRead(current_sim_time + d,
                  UpdateSchedule(MaybeReload(FALSE, current_sim_time + d), train_templates,
                                 current_sim_time + d))

NextArrive == StartSimulation \/ PauseSimulation \/ UpdateSimulation \/ TickSimTimeKept

\* update_simulation would leave the roster and the pass times as they are
UpdateSettled ==
    LET u == UpdateFrom(1, balises, [trains |-> trains, pass_times |-> balise_pass_times],
                        is_running, current_sim_time)
    IN  \/ u.trains = trains /\ u.pass_times = balise_pass_times
        \/ \E k \in 1..Len(u.trains) :
               Len(Get(u.trains[k], "active_restrictions", <<>>)) > MaxRestr

\* a step of tick_sim_time seen from the clock: the steps of TickSimTimeKept
\* are the steps that move the clock forward, and one is possible while the
\* clock is below SimEnd
ClockAdvances == current_sim_time' \in (current_sim_time + 1)..SimEnd

\* both timers keep firing.  The 1000 ms timer: weak fairness of the clock's
\* steps.  The 16 ms timer: WF_vars(UpdateSimulation) with its enabling
\* condition written out as the state predicate ~UpdateSettled
TimersFire ==
    /\ WF_current_sim_time(ClockAdvances)
    /\ ([]<>UpdateSettled \/ []<><<UpdateSimulation>>_vars)

SpecArrive == InitArrive /\ [][NextArrive]_vars /\ TimersFire

\* train k runs by the timetable
Scheduled(k) == Get(trains[k], "schedule_managed", FALSE)

\* a timetable train with an arrival time is on its way
Traveling ==
    \E k \in 1..Len(trains) :
        /\ Scheduled(k)
        /\ trains[k]["status"] = "traveling"
        /\ GetOpt(trains[k], "arr_time") # None

\* the same, after the stop balise has set both its speeds to 0
TravelingStopped ==
    \E k \in 1..Len(trains) :
        /\ Scheduled(k)
        /\ trains[k]["status"] = "traveling"
        /\ GetOpt(trains[k], "arr_time") # None
        /\ trains[k]["base_speed"] = 0
        /\ trains[k]["current_speed_limit"] = 0

\* a timetable train stands at its terminal
AtTerminal ==
    \E k \in 1..Len(trains) :
        /\ Scheduled(k)
        /\ trains[k]["status"] = "at_terminal"
        /\ Some(trains[k]["current_location"]) = trains[k]["end_loc"]

\* no timetable train is in the roster
NoneScheduled == \A k \in 1..Len(trains) : ~Scheduled(k)

(* C39: every schedule-managed train with an arrival time that is in status   *)
(* traveling eventually has status at_terminal at exactly end_loc, provided    *)
(* both timers keep firing, also after a RED balise has set its base_speed and *)
(* current_speed_limit to 0.                                                   *)
C39_ReachesTerminal == Traveling ~> AtTerminal

\* the case of the train stopped by the balise
C39_StoppedReachesTerminal == TravelingStopped ~> AtTerminal

\* what does hold: the train reaches its terminal or is taken off the roster
C39_TerminalOrRemoved == Traveling ~> (AtTerminal \/ NoneScheduled)

\* the stopped train does not move by stepping: it stays where it is until the
\* arrival time puts it at its terminal
C39_StoppedStands ==
    [][UpdateSimulation =>
          \A k \in 1..Len(trains) :
              (/\ Scheduled(k)
               /\ trains[k]["status"] = "traveling"
               /\ trains[k]["base_speed"] = 0
               /\ trains[k]["current_speed_limit"] = 0
               /\ trains'[k]["status"] = "traveling")
                => trains'[k]["current_location"] = trains[k]["current_location"]]_vars

\* a timetable train stopped by the balise is on its way at location 8
C39_StoppedReached ==
    \E k \in 1..Len(trains) :
        /\ Scheduled(k) /\ trains[k]["status"] = "traveling"
        /\ trains[k]["base_speed"] = 0 /\ trains[k]["current_location"] = 8

=============================================================================
